---------------------------- MODULE Spec2Model ----------------------------
(***************************************************************************)
(* A model of rib's command execution subsystem (fileop.go, the command    *)
(* functions and util.go).                                                 *)
(*                                                                         *)
(* Strings are sequences of atoms.  An atom is an opaque run of bytes that *)
(* holds neither a path separator, a NUL (0x00) nor a unit separator       *)
(* (0x1f); the atoms "/", "NUL" and "US" stand for those three bytes.  A   *)
(* script's file name is a sequence of one-character atoms, so that the    *)
(* file name grammar, the directory order and strconv.Atoi are computed    *)
(* character by character.                                                 *)
(***************************************************************************)
EXTENDS Integers, Sequences, FiniteSets, TLC

(***************************************************************************)
(* Bounds of the model.                                                    *)
(***************************************************************************)
\* Scripts in build.d in one build run.
MaxScripts == 2
\* Width in bits of Go's int as the model keeps it: strconv.Atoi reports a
\* range error for a digit run above 2^IntBits - 1.  Go's int has 63 value
\* bits; the model scales the width down so that the digit runs of
\* DigitRuns cross it.
IntBits == 7

IntMax == 2 ^ IntBits - 1

(***************************************************************************)
(* Characters of file names, with their byte values (the order            *)
(* ioutil.ReadDir sorts by).                                               *)
(***************************************************************************)
Digits == {"0", "1", "2", "3", "4", "5", "6", "7", "8", "9"}

Upper == {"C", "E", "F", "I", "R", "S", "X"}

Lower == {"a", "b"}

CharOrd(c) ==
    CASE c = "-" -> 45
      [] c = "0" -> 48 [] c = "1" -> 49 [] c = "2" -> 50 [] c = "3" -> 51
      [] c = "4" -> 52 [] c = "5" -> 53 [] c = "6" -> 54 [] c = "7" -> 55
      [] c = "8" -> 56 [] c = "9" -> 57
      [] c = "C" -> 67 [] c = "E" -> 69 [] c = "F" -> 70 [] c = "I" -> 73
      [] c = "R" -> 82 [] c = "S" -> 83 [] c = "X" -> 88
      [] c = "a" -> 97 [] c = "b" -> 98

DigitVal(c) == CharOrd(c) - 48

\* Byte-wise string order, as sort.Slice over Name() in ioutil.ReadDir.
RECURSIVE StrLess(_, _)
StrLess(a, b) ==
    IF b = <<>> THEN FALSE
    ELSE IF a = <<>> THEN TRUE
    ELSE IF CharOrd(Head(a)) # CharOrd(Head(b))
         THEN CharOrd(Head(a)) < CharOrd(Head(b))
    ELSE StrLess(Tail(a), Tail(b))

\* ioutil.ReadDir: the directory's entries sorted by file name.
RECURSIVE ReadDir(_)
ReadDir(names) ==
    IF names = {} THEN <<>>
    ELSE LET least == CHOOSE n \in names :
                          \A m \in names \ {n} : StrLess(n, m)
         IN  <<least>> \o ReadDir(names \ {least})

(***************************************************************************)
(* The file name grammar of PrepareParts: a run of one or more digits, a  *)
(* dash, a run of zero or more upper-case letters, a dash.                 *)
(***************************************************************************)
\* Length of the longest prefix of s whose characters are all in class.
RECURSIVE RunLen(_, _)
RunLen(s, class) ==
    IF s = <<>> \/ Head(s) \notin class THEN 0
    ELSE 1 + RunLen(Tail(s), class)

Drop(s, n) == SubSeq(s, n + 1, Len(s))

Take(s, n) == SubSeq(s, 1, n)

\* re.FindStringSubmatch(name): <<whole, digits, letters>> on a match, <<>>
\* (nil) otherwise.  Neither class holds "-", so the greedy runs are the only
\* way to match.
FindStringSubmatch(name) ==
    LET d  == RunLen(name, Digits)
        r1 == Drop(name, d)
        u  == IF r1 # <<>> /\ Head(r1) = "-"
              THEN RunLen(Tail(r1), Upper) ELSE 0
        r2 == IF r1 # <<>> THEN Drop(Tail(r1), u) ELSE <<>>
    IN  IF d >= 1 /\ r1 # <<>> /\ Head(r1) = "-" /\ r2 # <<>> /\ Head(r2) = "-"
        THEN << Take(name, d + 1 + u + 1), Take(name, d), Take(Tail(r1), u) >>
        ELSE <<>>

\* strconv.Atoi on a non-empty digit run: the value, or a range error when
\* the value does not fit an int.  The accumulation stops at the first
\* overflow, as ParseInt's cutoff test does.
RECURSIVE AtoiAcc(_, _)
AtoiAcc(s, acc) ==
    IF s = <<>> THEN [err |-> FALSE, val |-> acc]
    ELSE IF acc * 10 + DigitVal(Head(s)) > IntMax
         THEN [err |-> TRUE, val |-> IntMax]
    ELSE AtoiAcc(Tail(s), acc * 10 + DigitVal(Head(s)))

Atoi(s) == AtoiAcc(s, 0)

(***************************************************************************)
(* Command environment flags (the const block of fileop.go).               *)
(***************************************************************************)
AllFlags == {"Einteractive", "Efakeroot", "Efakechroot", "Echroot",
             "Edirectexec", "Eignoreexit", "Eskip"}

\* FlagOfLetter without the two flags that 'C' sets implicitly.
FlagOfLetterNoImplied(c) ==
    CASE c = "I" -> {"Einteractive"}
      [] c = "R" -> {"Efakeroot"}
      [] c = "F" -> {"Efakechroot"}
      [] c = "C" -> {"Echroot"}
      [] c = "E" -> {"Eignoreexit"}
      [] c = "S" -> {"Eskip"}
      [] OTHER   -> {}

\* One case of the switch in PrepareParts' flag loop.
FlagOfLetter(c) ==
    CASE c = "I" -> {"Einteractive"}
      [] c = "R" -> {"Efakeroot"}
      [] c = "F" -> {"Efakechroot"}
      [] c = "C" -> {"Echroot", "Efakeroot", "Efakechroot"}
      [] c = "E" -> {"Eignoreexit"}
      [] c = "S" -> {"Eskip"}
      [] OTHER   -> {}

RECURSIVE ParseFlags(_)
ParseFlags(letters) ==
    IF letters = <<>> THEN {}
    ELSE FlagOfLetter(Head(letters)) \cup ParseFlags(Tail(letters))

(***************************************************************************)
(* Paths.                                                                  *)
(***************************************************************************)
Join(a, b) == a \o <<"/">> \o b

RECURSIVE Base(_)
Base(p) ==
    IF \E i \in 1..Len(p) : p[i] = "/"
    THEN Base(Drop(p, CHOOSE i \in 1..Len(p) : p[i] = "/"))
    ELSE p

WorkDir == <<"/work">>

PATHNAME_BUILDD == <<"build.d">>

PATHNAME_ROOTFS == <<"rootfs">>

PATHNAME_BIN == <<"bin">>

PATHNAME_TMP == <<"tmp">>

PATHNAME_FAKEROOTSAVE == <<"fakeroot.save">>

(***************************************************************************)
(* PrepareParts.                                                           *)
(***************************************************************************)
\* The zero value of the CmdEnv struct.
ZeroCmdEnv ==
    [ Path             |-> <<>>,
      Args             |-> <<>>,
      Env              |-> <<>>,
      flag             |-> {},
      workDir          |-> <<>>,
      chrootDir        |-> <<>>,
      fakerootSaveFile |-> <<>>,
      vTmpDir          |-> <<>>,
      vExecDir         |-> <<>>,
      childDataHandler |-> FALSE ]

\* seq < seqmin: the entry is skipped.
SeqBelowMin(seq, seqmin) == seq < seqmin

\* The loop body for one directory entry: <<ce>> when the entry is
\* registered, <<>> when it is skipped (continue).
PreparePart(dir, name, seqmin) ==
    LET groups == FindStringSubmatch(name)
    IN  IF Len(groups) # 3 THEN <<>>
        ELSE LET seq == Atoi(groups[2])
                 fl  == ParseFlags(groups[3])
             IN  IF seq.err THEN <<>>
                 ELSE IF SeqBelowMin(seq.val, seqmin) THEN <<>>
                 ELSE IF "Eskip" \in fl THEN <<>>
                 ELSE << [ZeroCmdEnv EXCEPT !.Path = Join(dir, name),
                                            !.Args = << Join(dir, name) >>,
                                            !.flag = fl] >>

RECURSIVE PreparePartsLoop(_, _, _)
PreparePartsLoop(dir, files, seqmin) ==
    IF files = <<>> THEN <<>>
    ELSE PreparePart(dir, Head(files), seqmin)
             \o PreparePartsLoop(dir, Tail(files), seqmin)

\* PrepareParts(dir, seqmin) on a directory holding the entries `names`.
PrepareParts(dir, names, seqmin) ==
    PreparePartsLoop(dir, ReadDir(names), seqmin)

(***************************************************************************)
(* The side channel: scanNull, readPipe's field split, handleChildData.    *)
(***************************************************************************)
NUL == "NUL"

US == "US"

\* Index of the first occurrence of atom b in data, 0 when there is none
\* (bytes.IndexByte, one-based).
IndexByte(data, b) ==
    IF \E i \in 1..Len(data) : data[i] = b
    THEN CHOOSE i \in 1..Len(data) :
             data[i] = b /\ \A j \in 1..(i - 1) : data[j] # b
    ELSE 0

\* scanNull that leaves out the last byte of a final record that no NUL
\* ends.
scanNullTruncatesTail(data, atEOF) ==
    LET i == IndexByte(data, NUL)
    IN  IF atEOF /\ Len(data) = 0
        THEN [advance |-> 0, has |-> FALSE, token |-> <<>>]
        ELSE IF i >= 1
        THEN [advance |-> i, has |-> TRUE, token |-> Take(data, i - 1)]
        ELSE IF atEOF
        THEN [advance |-> Len(data), has |-> TRUE,
              token |-> Take(data, Len(data) - 1)]
        ELSE [advance |-> 0, has |-> FALSE, token |-> <<>>]

\* scanNull(data, atEOF): has = FALSE stands for the nil token (no record
\* yet, or none left).
scanNull(data, atEOF) ==
    LET i == IndexByte(data, NUL)
    IN  IF atEOF /\ Len(data) = 0
        THEN [advance |-> 0, has |-> FALSE, token |-> <<>>]
        ELSE IF i >= 1
        THEN [advance |-> i, has |-> TRUE, token |-> Take(data, i - 1)]
        ELSE IF atEOF
        THEN [advance |-> Len(data), has |-> TRUE, token |-> data]
        ELSE [advance |-> 0, has |-> FALSE, token |-> <<>>]

\* bytes.SplitN(s, sep, n) for n >= 1: at most n fields, the last one the
\* unsplit remainder.
RECURSIVE SplitN(_, _, _)
SplitN(s, sep, n) ==
    LET i == IndexByte(s, sep)
    IN  IF n <= 1 \/ i = 0 THEN << s >>
        ELSE << Take(s, i - 1) >> \o SplitN(Drop(s, i), sep, n - 1)

\* handleChildData in which unsetenv removes nothing.
handleChildDataNoDelete(env, cd) ==
    IF cd.category = <<"setenv">>
    THEN [k \in DOMAIN env \cup {cd.key} |->
              IF k = cd.key THEN cd.value ELSE env[k]]
    ELSE env

\* handleChildData that takes every category but unsetenv for setenv.
handleChildDataOtherSets(env, cd) ==
    IF cd.category = <<"unsetenv">>
    THEN [k \in DOMAIN env \ {cd.key} |-> env[k]]
    ELSE [k \in DOMAIN env \cup {cd.key} |->
              IF k = cd.key THEN cd.value ELSE env[k]]

\* handleChildData whose unsetenv stores an empty value under the key.
handleChildDataUnsetBlanks(env, cd) ==
    IF cd.category \in { <<"setenv">>, <<"unsetenv">> }
    THEN [k \in DOMAIN env \cup {cd.key} |->
              IF k = cd.key
              THEN (IF cd.category = <<"setenv">> THEN cd.value ELSE <<>>)
              ELSE env[k]]
    ELSE env

\* handleChildData(cd) on the map env (cmdPersistEnv): the map afterwards.
handleChildData(env, cd) ==
    IF cd.category = <<"setenv">>
    THEN [k \in DOMAIN env \cup {cd.key} |->
              IF k = cd.key THEN cd.value ELSE env[k]]
    ELSE IF cd.category = <<"unsetenv">>
    THEN [k \in DOMAIN env \ {cd.key} |-> env[k]]
    ELSE env

\* The body of readPipe's loop for one scanned token.  panic = TRUE when the
\* index r[1] or r[2] is out of range, or when ce.childDataHandler is nil.
readPipeRecord(token, handlerSet, env) ==
    LET r == SplitN(token, US, 3)
    IN  IF Len(r) < 3 \/ ~handlerSet
        THEN [panic |-> TRUE, env |-> env]
        ELSE [panic |-> FALSE,
              env   |-> handleChildData(env,
                            [category |-> r[1], key |-> r[2], value |-> r[3]])]

(***************************************************************************)
(* The directory skeleton (util.go) and SetEnv.                            *)
(***************************************************************************)
dirSkeleton ==
    << [pathname |-> <<"._RIB_">>,        filetype |-> "FILE", envvar |-> <<>>,                  initonly |-> TRUE],
       [pathname |-> PATHNAME_BUILDD,      filetype |-> "DIR",  envvar |-> <<"RIB_DIR_BUILDD">>, initonly |-> FALSE],
       [pathname |-> PATHNAME_ROOTFS,      filetype |-> "DIR",  envvar |-> <<"RIB_DIR_ROOTFS">>, initonly |-> FALSE],
       [pathname |-> PATHNAME_BIN,         filetype |-> "DIR",  envvar |-> <<"RIB_DIR_BIN">>,    initonly |-> FALSE],
       [pathname |-> <<"dist">>,           filetype |-> "DIR",  envvar |-> <<"RIB_DIR_DIST">>,   initonly |-> FALSE],
       [pathname |-> <<"files">>,          filetype |-> "DIR",  envvar |-> <<"RIB_DIR_FILES">>,  initonly |-> FALSE],
       [pathname |-> PATHNAME_TMP,         filetype |-> "DIR",  envvar |-> <<"RIB_DIR_TEMP">>,   initonly |-> FALSE],
       [pathname |-> <<"log">>,            filetype |-> "DIR",  envvar |-> <<"RIB_DIR_LOG">>,    initonly |-> FALSE],
       [pathname |-> PATHNAME_FAKEROOTSAVE, filetype |-> "FILE", envvar |-> <<>>,                 initonly |-> FALSE] >>

SystemPath == <<"/usr/sbin:/usr/bin:/sbin:/bin">>

\* filepath.Rel(base, target) for a target below base; filepath.Rel fails
\* only when one path is absolute and the other is not, and both are
\* absolute here (workDir comes from RealPath), so SetEnv returns nil.
Rel(base, target) == Drop(target, Len(base) + 1)

\* The map cmdVolatileEnv that SetEnv fills, as a function from names.
cmdVolatileEnv(ce) ==
    IF "Echroot" \in ce.flag
    THEN [n \in {<<"PATH">>, <<"VTEMP">>} |->
             IF n = <<"PATH">> THEN SystemPath
             ELSE <<"/">> \o Rel(Join(ce.workDir, PATHNAME_ROOTFS), ce.vTmpDir)]
    ELSE LET withVar == {i \in 1..Len(dirSkeleton) : dirSkeleton[i].envvar # <<>>}
         IN  [n \in {<<"PATH">>, <<"VTEMP">>}
                      \cup {dirSkeleton[i].envvar : i \in withVar} |->
                 IF n = <<"PATH">>
                 THEN Join(ce.workDir, PATHNAME_BIN) \o <<":">> \o SystemPath
                 ELSE IF n = <<"VTEMP">> THEN ce.vTmpDir
                 ELSE LET i == CHOOSE i \in withVar : dirSkeleton[i].envvar = n
                      IN  Join(ce.workDir, dirSkeleton[i].pathname)]

\* fmt.Sprintf("%s=%s", name, value)
EnvEntry(name, value) == name \o <<"=">> \o value

RECURSIVE SetToSeq(_)
SetToSeq(S) ==
    IF S = {} THEN <<>>
    ELSE LET e == CHOOSE e \in S : TRUE
         IN  <<e>> \o SetToSeq(S \ {e})

\* Go leaves the order of `range` over a map unspecified and starts each
\* iteration at a random position.  The orders the model draws from are the
\* rotations of one enumeration of the keys by the offsets in RangeStarts.
RangeStarts == {0, 1}

RangeOrders(m) ==
    LET keys == SetToSeq(DOMAIN m)
        n    == Len(keys)
    IN  IF n = 0 THEN { <<>> }
        ELSE { [i \in 1..n |-> keys[((i + r - 1) % n) + 1]] : r \in RangeStarts }

EntriesInOrder(m, order) == [i \in 1..Len(order) |-> EnvEntry(order[i], m[order[i]])]

RibExecEnv == EnvEntry(<<"RIB_EXEC_ENV">>, <<"1">>)

\* SetEnv that appends RIB_EXEC_ENV=1 first instead of last.
SetEnvSentinelFirst(ce, persist, vorder, porder) ==
    ce.Env \o << RibExecEnv >>
           \o EntriesInOrder(cmdVolatileEnv(ce), vorder)
           \o EntriesInOrder(persist, porder)

\* SetEnv that copies the persistent store before the volatile entries.
SetEnvPersistFirst(ce, persist, vorder, porder) ==
    ce.Env \o EntriesInOrder(persist, porder)
           \o EntriesInOrder(cmdVolatileEnv(ce), vorder)
           \o << RibExecEnv >>

\* SetEnv that composes the environment without reading cmdPersistEnv.
SetEnvNoPersist(ce, persist, vorder, porder) ==
    ce.Env \o EntriesInOrder(cmdVolatileEnv(ce), vorder) \o << RibExecEnv >>

\* ce.Env after SetEnv, the two range loops running in the orders vorder and
\* porder; persist is cmdPersistEnv.
SetEnv(ce, persist, vorder, porder) ==
    ce.Env \o EntriesInOrder(cmdVolatileEnv(ce), vorder)
           \o EntriesInOrder(persist, porder)
           \o << RibExecEnv >>

(***************************************************************************)
(* MakeArgs.                                                               *)
(***************************************************************************)
Wrappers == {"chroot", "fakeroot", "fakechroot"}

\* exec.LookPath(name), found being the programs present on the search path.
LookPath(found, name) ==
    IF name \in found
    THEN [err |-> FALSE, path |-> <<"/usr/bin", "/", name>>]
    ELSE [err |-> TRUE, path |-> <<>>]

\* The Echroot block without the assignment of the program's path to
\* argv[0].
MakeArgsChrootKeepArgv0(ce, found) ==
    IF "Echroot" \notin ce.flag THEN [err |-> FALSE, ce |-> ce]
    ELSE IF ce.chrootDir = <<>> THEN [err |-> TRUE, ce |-> ce]
    ELSE LET lp == LookPath(found, "chroot")
         IN  IF lp.err
             THEN [err |-> TRUE, ce |-> [ce EXCEPT !.Path = lp.path]]
             ELSE [err |-> FALSE,
                   ce  |-> [ce EXCEPT !.Path = lp.path,
                                      !.Args = << lp.path, ce.chrootDir >> \o ce.Args]]

\* The Echroot block of MakeArgs, which puts the program's path at argv[0]
\* and prepends the chroot command.
MakeArgsChroot(ce, found) ==
    IF "Echroot" \notin ce.flag THEN [err |-> FALSE, ce |-> ce]
    ELSE IF ce.chrootDir = <<>> THEN [err |-> TRUE, ce |-> ce]
    ELSE LET args == IF ce.Path # <<>>
                     THEN IF ce.Args = <<>> THEN << ce.Path >>
                          ELSE [ce.Args EXCEPT ![1] = ce.Path]
                     ELSE ce.Args
             lp   == LookPath(found, "chroot")
         IN  IF lp.err
             THEN [err |-> TRUE, ce |-> [ce EXCEPT !.Path = lp.path, !.Args = args]]
             ELSE [err |-> FALSE,
                   ce  |-> [ce EXCEPT !.Path = lp.path,
                                      !.Args = << lp.path, ce.chrootDir >> \o args]]

\* The Efakeroot block of MakeArgs.
MakeArgsFakeroot(ce, found) ==
    IF "Efakeroot" \notin ce.flag THEN [err |-> FALSE, ce |-> ce]
    ELSE LET lp == LookPath(found, "fakeroot")
         IN  IF lp.err THEN [err |-> TRUE, ce |-> [ce EXCEPT !.Path = lp.path]]
             ELSE IF ce.fakerootSaveFile # <<>>
             THEN [err |-> FALSE,
                   ce  |-> [ce EXCEPT !.Path = lp.path,
                                      !.Args = << lp.path,
                                                  <<"-s">>, ce.fakerootSaveFile,
                                                  <<"-i">>, ce.fakerootSaveFile,
                                                  <<"--">> >> \o ce.Args]]
             ELSE [err |-> FALSE,
                   ce  |-> [ce EXCEPT !.Path = lp.path,
                                      !.Args = << lp.path, <<"--">> >> \o ce.Args]]

\* The Efakechroot block of MakeArgs.
MakeArgsFakechroot(ce, found) ==
    IF "Efakechroot" \notin ce.flag THEN [err |-> FALSE, ce |-> ce]
    ELSE LET lp == LookPath(found, "fakechroot")
         IN  IF lp.err THEN [err |-> TRUE, ce |-> [ce EXCEPT !.Path = lp.path]]
             ELSE [err |-> FALSE,
                   ce  |-> [ce EXCEPT !.Path = lp.path,
                                      !.Args = << lp.path, <<"--environment">>,
                                                  <<"debootstrap">>, <<"--">> >>
                                               \o ce.Args]]

\* MakeArgs with its blocks in the opposite order.
MakeArgsFakechrootFirst(ce, found) ==
    LET a == MakeArgsFakechroot(ce, found)
        b == MakeArgsFakeroot(a.ce, found)
        c == MakeArgsChroot(b.ce, found)
    IN  IF a.err THEN a ELSE IF b.err THEN b ELSE c

\* ce.MakeArgs(): the error flag and the CmdEnv afterwards.
MakeArgs(ce, found) ==
    LET a == MakeArgsChroot(ce, found)
        b == MakeArgsFakeroot(a.ce, found)
        c == MakeArgsFakechroot(b.ce, found)
    IN  IF a.err THEN a ELSE IF b.err THEN b ELSE c

(***************************************************************************)
(* Inputs of the model.                                                    *)
(***************************************************************************)
\* Entries build.d may hold in a build run.
ScriptNames ==
    { <<"9", "-", "-", "a">>,
      <<"1", "0", "-", "E", "-", "a">>,
      <<"1", "0", "-", "C", "X", "-", "b">>,
      <<"2", "-", "I", "E", "-", "a">>,
      <<"0", "5", "-", "S", "-", "a">>,
      <<"a", "-", "-", "b">> }

\* The subsets of S with at most n elements.
RECURSIVE SubsetsUpTo(_, _)
SubsetsUpTo(S, n) ==
    IF n = 0 THEN { {} }
    ELSE LET smaller == SubsetsUpTo(S, n - 1)
         IN  smaller \cup { p \cup {e} : p \in smaller, e \in S }

DirListings == SubsetsUpTo(ScriptNames, MaxScripts)

SeqMins == {0, 3}

\* Arguments of `rib shell`.
ShellArgs == { <<>>, << <<"ls">> >>, << <<"ls">>, <<"-l">> >>, << <<>> >> }

\* The random suffixes ioutil.TempDir and ioutil.TempFile draw from.  No two
\* directories made with the same prefix exist at a time, so one suffix
\* gives every outcome: a fresh name, or a failure.
TempSuffixes == {"r1"}

Record(category, key, value) == category \o <<US>> \o key \o <<US>> \o value

\* What a script may write to the side channel (descriptor 3).
SideStreams ==
    { <<>>,
      Record(<<"setenv">>, <<"A">>, <<"1">>) \o <<NUL>>,
      Record(<<"setenv">>, <<"A">>, <<"2">>) \o <<NUL>>
          \o Record(<<"setenv">>, <<"PATH">>, <<"/opt">>),
      Record(<<"unsetenv">>, <<"A">>, <<"x">>) \o <<NUL>>,
      Record(<<"setenv">>, <<"PATH">>, <<"/opt">>) \o <<NUL>>
          \o Record(<<"unsetenv">>, <<"PATH">>, <<>>) \o <<NUL>>,
      <<"setenv", US, "A", NUL>>,
      Record(<<"setenv">>, <<"A">>, <<"1">>) \o <<NUL, NUL>> }

(***************************************************************************)
(* The state.                                                              *)
(***************************************************************************)
VARIABLES
    mode,           \* the subcommand: "build" or "shell"
    names,          \* the entries of build.d
    seqmin,         \* cmdBuild's seqmin
    shellargs,      \* cmdShell's args
    pc,             \* where the main goroutine is
    result,         \* what the subcommand returned: "none", "nil", "err"
    celist,         \* cmdBuild's celist
    idx,            \* the position of cmdBuild's range loop in celist
    ce,             \* the CmdEnv RunCmd runs on
    runErr,         \* the error the last RunCmd call returned ("nil": none)
    deferRemove,    \* RunCmd has deferred ce.RemoveVolatileDirs()
    disk,           \* the volatile directories and files that exist
    cmdPersistEnv,  \* the package-level map
    persistMade,    \* cmdPersistEnv has been made (it is not the nil map)
    pipeBuf,        \* the side-channel pipe: bytes written and not yet read
    pipeParentW,    \* the parent's write end is open
    pipeChildW,     \* the child's copy of the write end is open
    pipeReadOpen,   \* the parent's read end is open
    proc,           \* the child: "none", "running", "exited"
    exitOK,         \* the child's exit status is zero
    dec,            \* the readPipe goroutine: "none", "running", "send", "done"
    outc,           \* the stdout readBuf goroutine, likewise
    errc,           \* the stderr readBuf goroutine, likewise
    log,            \* history: one record per RunCmd call
    applied,        \* history: the records handed to handleChildData
    childOut,       \* what a captured script writes to its standard output
    childErr,       \* what a captured script writes to its standard error
    outPend,        \* standard output: bytes the child has yet to write
    errPend,        \* standard error: bytes the child has yet to write
    outPipe,        \* standard output: bytes written and not yet scanned
    errPipe,        \* standard error: bytes written and not yet scanned
    logged,         \* history: the lines readBuf has handed to the logger
    fs,             \* the file system the file helpers and commands act on
    call            \* history: the last file helper or command call

vars == << mode, names, seqmin, shellargs, pc, result, celist, idx, ce, runErr,
           deferRemove, disk, cmdPersistEnv, persistMade, pipeBuf, pipeParentW,
           pipeChildW, pipeReadOpen, proc, exitOK, dec, outc, errc, log,
           applied, childOut, childErr, outPend, errPend, outPipe, errPipe,
           logged, fs, call >>

inputVars == << mode, names, seqmin, shellargs, childOut, childErr >>

outVars == << outPend, errPend, outPipe, errPipe, logged >>

fileVars == << fs, call >>

pipeVars == << pipeBuf, pipeParentW, pipeChildW, pipeReadOpen >>

procVars == << proc, exitOK >>

EmptyMap == [k \in {} |-> <<>>]

\* The variables of a command run, which the file helpers leave alone.
runVars == << inputVars, outVars, pc, result, celist, idx, ce, runErr,
              deferRemove, disk, cmdPersistEnv, persistMade, pipeVars,
              procVars, dec, outc, errc, log, applied >>

\* No file helper or command has been called yet.
NoCall == [op |-> "none", path |-> <<>>, all |-> FALSE, err |-> "nil",
           empty |-> FALSE, before |-> EmptyMap]

\* The variables of a command run before the command has started.
InitRun ==
    /\ result = "none"
    /\ celist = <<>>
    /\ idx = 0
    /\ ce = ZeroCmdEnv
    /\ runErr = "nil"
    /\ deferRemove = FALSE
    /\ disk = {}
    /\ cmdPersistEnv = EmptyMap
    /\ persistMade = FALSE
    /\ pipeBuf = <<>>
    /\ pipeParentW = FALSE
    /\ pipeChildW = FALSE
    /\ pipeReadOpen = FALSE
    /\ proc = "none"
    /\ exitOK = TRUE
    /\ dec = "none"
    /\ outc = "none"
    /\ errc = "none"
    /\ log = <<>>
    /\ applied = <<>>
    /\ childOut = <<>>
    /\ childErr = <<>>
    /\ outPend = <<>>
    /\ errPend = <<>>
    /\ outPipe = <<>>
    /\ errPipe = <<>>
    /\ logged = <<>>

InitRest ==
    /\ InitRun
    /\ fs = EmptyMap
    /\ call = NoCall

Init ==
    /\ \/ /\ mode = "build"
          /\ names \in DirListings
          /\ seqmin \in SeqMins
          /\ shellargs = <<>>
          /\ pc = "cmdBuild"
       \/ /\ mode = "shell"
          /\ names = {}
          /\ seqmin = 0
          /\ shellargs \in ShellArgs
          /\ pc = "cmdShell"
    /\ InitRest

(***************************************************************************)
(* RunCmd, step by step.                                                   *)
(***************************************************************************)
Interactive == "Einteractive" \in ce.flag

\* ce.RemoveVolatileDirs(): the directories that exist afterwards.
RemoveVolatileDirs(c, d) == d \ { dir \in {c.vTmpDir, c.vExecDir} : dir # <<>> }

\* The entry of a RunCmd call: the CmdEnv with its first two assignments
\* made, and the call's record in the history.
EnterRunCmd(c) ==
    /\ ce' = [c EXCEPT !.chrootDir = Join(c.workDir, PATHNAME_ROOTFS),
                       !.fakerootSaveFile = Join(c.workDir, PATHNAME_FAKEROOTSAVE)]
    /\ pc' = "MakeVolatileDirs"
    /\ deferRemove' = FALSE
    /\ log' = Append(log, [name |-> Base(c.Path), flag |-> c.flag,
                           proc |-> "none", exit |-> "none",
                           ret |-> "pending", stream |-> <<>>])
    /\ pipeBuf' = <<>>
    /\ pipeParentW' = FALSE
    /\ pipeChildW' = FALSE
    /\ pipeReadOpen' = FALSE
    /\ proc' = "none"
    /\ dec' = "none"
    /\ outc' = "none"
    /\ errc' = "none"

\* A return of RunCmd that applies the Eignoreexit test to every error.
ReturnRunCmdIgnoring(err, c, d, l) ==
    /\ ce' = c
    /\ runErr' = IF "Eignoreexit" \in c.flag THEN "nil" ELSE err
    /\ pc' = "Returned"
    /\ disk' = IF deferRemove THEN RemoveVolatileDirs(c, d) ELSE d
    /\ deferRemove' = FALSE
    /\ pipeReadOpen' = FALSE
    /\ log' = [l EXCEPT ![Len(l)].ret =
                            IF "Eignoreexit" \in c.flag THEN "nil" ELSE err]

\* A return of RunCmd with error err: the deferred calls run (the read end
\* of the pipe is closed, the volatile directories are removed when the
\* removal has been deferred), and the caller gets err.
ReturnRunCmd(err, c, d, l) ==
    /\ ce' = c
    /\ runErr' = err
    /\ pc' = "Returned"
    /\ disk' = IF deferRemove THEN RemoveVolatileDirs(c, d) ELSE d
    /\ deferRemove' = FALSE
    /\ pipeReadOpen' = FALSE
    /\ log' = [l EXCEPT ![Len(l)].ret = err]

\* MakeVolatileDirs and the error test and defer that follow it in RunCmd.
DoMakeVolatileDirs ==
    /\ pc = "MakeVolatileDirs"
    /\ LET base == Join(ce.workDir, IF "Echroot" \in ce.flag
                                    THEN PATHNAME_ROOTFS ELSE PATHNAME_TMP)
           next == IF "Echroot" \in ce.flag /\ "Edirectexec" \notin ce.flag
                   THEN "CopyFile" ELSE "SetEnv"
       IN  \/ \* the first ioutil.TempDir fails
              ReturnRunCmd("TempDir", ce, disk, log)
           \/ \E s1 \in TempSuffixes :
                LET tmp == base \o <<"/", ".volatile.", s1>>
                IN  /\ tmp \notin disk
                    /\ \/ \* not chroot: one directory
                          /\ "Echroot" \notin ce.flag
                          /\ ce' = [ce EXCEPT !.vTmpDir = tmp]
                          /\ disk' = disk \cup {tmp}
                          /\ deferRemove' = TRUE
                          /\ pc' = next
                          /\ UNCHANGED << runErr, pipeReadOpen, log >>
                       \/ \* chroot: the second ioutil.TempDir fails
                          /\ "Echroot" \in ce.flag
                          /\ ReturnRunCmd("TempDir", [ce EXCEPT !.vTmpDir = tmp],
                                          disk \cup {tmp}, log)
                       \/ \* chroot: both directories
                          /\ "Echroot" \in ce.flag
                          /\ \E s2 \in TempSuffixes :
                               LET exe == base \o <<"/", ".exec.", s2>>
                               IN  /\ exe \notin disk
                                   /\ ce' = [ce EXCEPT !.vTmpDir = tmp,
                                                       !.vExecDir = exe]
                                   /\ disk' = disk \cup {tmp, exe}
                          /\ deferRemove' = TRUE
                          /\ pc' = next
                          /\ UNCHANGED << runErr, pipeReadOpen, log >>
    /\ UNCHANGED << inputVars, fileVars, outVars, result, celist, idx, cmdPersistEnv, persistMade,
                    pipeBuf, pipeParentW, pipeChildW, procVars, dec, outc,
                    errc, applied >>

\* The copy of the program into the exec-staging directory.
StageCopy ==
    /\ pc = "CopyFile"
    /\ \/ ReturnRunCmd("CopyFile", ce, disk, log)
       \/ /\ ce' = [ce EXCEPT !.Path = <<"/">> \o Base(ce.vExecDir)
                                          \o <<"/">> \o Base(ce.Path)]
          /\ pc' = "SetEnv"
          /\ UNCHANGED << runErr, disk, deferRemove, pipeReadOpen, log >>
    /\ UNCHANGED << inputVars, fileVars, outVars, result, celist, idx, cmdPersistEnv, persistMade,
                    pipeBuf, pipeParentW, pipeChildW, procVars, dec, outc,
                    errc, applied >>

DoSetEnv ==
    /\ pc = "SetEnv"
    /\ \E vorder \in RangeOrders(cmdVolatileEnv(ce)),
          porder \in RangeOrders(cmdPersistEnv) :
         ce' = [ce EXCEPT !.Env = SetEnv(ce, cmdPersistEnv, vorder, porder)]
    /\ pc' = "MakeArgs"
    /\ UNCHANGED << inputVars, fileVars, outVars, result, celist, idx, runErr, deferRemove, disk,
                    cmdPersistEnv, persistMade, pipeVars, procVars, dec, outc,
                    errc, log, applied >>

DoMakeArgs ==
    /\ pc = "MakeArgs"
    /\ \E found \in SUBSET Wrappers :
         LET r == MakeArgs(ce, found)
         IN  IF r.err
             THEN ReturnRunCmd("MakeArgs", r.ce, disk, log)
             ELSE /\ ce' = r.ce
                  /\ pc' = "Pipe"
                  /\ UNCHANGED << runErr, disk, deferRemove, pipeReadOpen, log >>
    /\ UNCHANGED << inputVars, fileVars, outVars, result, celist, idx, cmdPersistEnv, persistMade,
                    pipeBuf, pipeParentW, pipeChildW, procVars, dec, outc,
                    errc, applied >>

\* os.Pipe, the deferred Close of its read end, and `go readPipe`.
OpenPipe ==
    /\ pc = "Pipe"
    /\ \/ /\ ReturnRunCmd("Pipe", ce, disk, log)
          /\ UNCHANGED << pipeBuf, pipeParentW, pipeChildW, dec >>
       \/ /\ pipeReadOpen' = TRUE
          /\ pipeParentW' = TRUE
          /\ pipeChildW' = FALSE
          /\ pipeBuf' = <<>>
          /\ dec' = "running"
          /\ pc' = IF Interactive THEN "Start" ELSE "StdPipes"
          /\ UNCHANGED << ce, runErr, disk, deferRemove, log >>
    /\ UNCHANGED << inputVars, fileVars, outVars, result, celist, idx, cmdPersistEnv, persistMade,
                    procVars, outc, errc, applied >>

\* ce.StdoutPipe() and ce.StderrPipe() of the captured branch.
StdPipes ==
    /\ pc = "StdPipes"
    /\ \/ ReturnRunCmd("StdPipe", ce, disk, log)
       \/ /\ pc' = "Start"
          /\ UNCHANGED << ce, runErr, disk, deferRemove, pipeReadOpen, log >>
    /\ UNCHANGED << inputVars, fileVars, outVars, result, celist, idx, cmdPersistEnv, persistMade,
                    pipeBuf, pipeParentW, pipeChildW, procVars, dec, outc,
                    errc, applied >>

\* ce.Start().  A started child inherits the write end of the pipe; what it
\* writes to the side channel over its life is in the pipe from the start.
\* In the captured branch the two readBuf goroutines are launched next.
StartProc ==
    /\ pc = "Start"
    /\ \/ /\ ReturnRunCmd("Start", ce, disk,
                          [log EXCEPT ![Len(log)].proc = "startfailed"])
          /\ UNCHANGED << pipeBuf, pipeChildW, proc, outc, errc, outVars >>
       \/ /\ \E stream \in SideStreams :
               /\ pipeBuf' = stream
               /\ log' = [log EXCEPT ![Len(log)].proc = "started",
                                     ![Len(log)].stream = stream]
          /\ proc' = "running"
          /\ pipeChildW' = TRUE
          /\ outc' = IF Interactive THEN outc ELSE "running"
          /\ errc' = IF Interactive THEN errc ELSE "running"
          /\ outPend' = IF Interactive THEN <<>> ELSE childOut
          /\ errPend' = IF Interactive THEN <<>> ELSE childErr
          /\ outPipe' = <<>>
          /\ errPipe' = <<>>
          /\ pc' = "CloseWrite"
          /\ UNCHANGED << ce, runErr, disk, deferRemove, pipeReadOpen, logged >>
    /\ UNCHANGED << inputVars, fileVars, result, celist, idx, cmdPersistEnv, persistMade,
                    pipeParentW, exitOK, dec, applied >>

\* pipeWriteFile.Close().  The descriptor is released whether or not Close
\* reports an error; the interactive branch returns the error, the captured
\* branch logs it and goes on.
CloseWrite ==
    /\ pc = "CloseWrite"
    /\ pipeParentW' = FALSE
    /\ \/ /\ pc' = IF Interactive THEN "RecvPipe" ELSE "RecvStdout"
          /\ UNCHANGED << ce, runErr, disk, deferRemove, pipeReadOpen, log >>
       \/ /\ Interactive
          /\ ReturnRunCmd("Close", ce, disk, log)
    /\ UNCHANGED << inputVars, fileVars, outVars, result, celist, idx, cmdPersistEnv, persistMade,
                    pipeBuf, pipeChildW, procVars, dec, outc, errc, applied >>

\* RunCmd going on without the receive from stopStdout.
RecvStdoutSkip ==
    /\ pc = "RecvStdout"
    /\ pc' = "RecvStderr"
    /\ UNCHANGED << inputVars, fileVars, outVars, result, celist, idx, ce, runErr, deferRemove,
                    disk, cmdPersistEnv, persistMade, pipeVars, procVars, dec,
                    outc, errc, log, applied >>

\* <-stopStdout
RecvStdout ==
    /\ pc = "RecvStdout"
    /\ outc = "send"
    /\ outc' = "done"
    /\ pc' = "RecvStderr"
    /\ UNCHANGED << inputVars, fileVars, outVars, result, celist, idx, ce, runErr, deferRemove,
                    disk, cmdPersistEnv, persistMade, pipeVars, procVars, dec,
                    errc, log, applied >>

\* <-stopStderr
RecvStderr ==
    /\ pc = "RecvStderr"
    /\ errc = "send"
    /\ errc' = "done"
    /\ pc' = "RecvPipe"
    /\ UNCHANGED << inputVars, fileVars, outVars, result, celist, idx, ce, runErr, deferRemove,
                    disk, cmdPersistEnv, persistMade, pipeVars, procVars, dec,
                    outc, log, applied >>

\* RunCmd going on without the receive from stopPipe.
RecvPipeSkip ==
    /\ pc = "RecvPipe"
    /\ pc' = "Wait"
    /\ UNCHANGED << inputVars, fileVars, outVars, result, celist, idx, ce, runErr, deferRemove,
                    disk, cmdPersistEnv, persistMade, pipeVars, procVars, dec,
                    outc, errc, log, applied >>

\* <-stopPipe
RecvPipe ==
    /\ pc = "RecvPipe"
    /\ dec = "send"
    /\ dec' = "done"
    /\ pc' = "Wait"
    /\ UNCHANGED << inputVars, fileVars, outVars, result, celist, idx, ce, runErr, deferRemove,
                    disk, cmdPersistEnv, persistMade, pipeVars, procVars, outc,
                    errc, log, applied >>

\* The error RunCmd returns after ce.Wait(), with the Eignoreexit test left
\* out.
ExitErrorNoIgnore(ok, flag) == IF ok THEN "nil" ELSE "Exit"

\* The error RunCmd returns after ce.Wait(): Wait's error, unless it is
\* ignored.
ExitError(ok, flag) ==
    IF ~ok /\ "Eignoreexit" \in flag THEN "nil"
    ELSE IF ok THEN "nil" ELSE "Exit"

\* A ce.Wait() that returns while the process is still running.
WaitProcNoBlock ==
    /\ pc = "Wait"
    /\ ReturnRunCmd("nil", ce, disk, [log EXCEPT ![Len(log)].exit = "zero"])
    /\ UNCHANGED << inputVars, fileVars, outVars, result, celist, idx, cmdPersistEnv, persistMade,
                    pipeBuf, pipeParentW, pipeChildW, procVars, dec, outc,
                    errc, applied >>

\* err = ce.Wait(), the Eignoreexit test and the return.
WaitProc ==
    /\ pc = "Wait"
    /\ proc = "exited"
    /\ ReturnRunCmd(ExitError(exitOK, ce.flag), ce, disk,
                    [log EXCEPT ![Len(log)].exit =
                                    IF exitOK THEN "zero" ELSE "nonzero"])
    /\ UNCHANGED << inputVars, fileVars, outVars, result, celist, idx, cmdPersistEnv, persistMade,
                    pipeBuf, pipeParentW, pipeChildW, procVars, dec, outc,
                    errc, applied >>

(***************************************************************************)
(* The child process and the goroutines RunCmd launches.                   *)
(***************************************************************************)
\* The orchestrator's process is alive: it has neither returned from main
\* nor died of a panic.
Alive == pc \notin {"Done", "Crashed"}

\* The child exits, which closes its copies of the descriptors.  It exits
\* once it has written all its output; a child blocked in a write to a full
\* pipe does not get there.
ChildExit ==
    /\ proc = "running"
    /\ outPend = <<>>
    /\ errPend = <<>>
    /\ proc' = "exited"
    /\ exitOK' \in BOOLEAN
    /\ pipeChildW' = FALSE
    /\ UNCHANGED << inputVars, fileVars, outVars, pc, result, celist, idx, ce, runErr,
                    deferRemove, disk, cmdPersistEnv, persistMade, pipeBuf,
                    pipeParentW, pipeReadOpen, dec, outc, errc, log, applied >>

\* The child closes its descriptor of the side channel (exec 3>&-) and runs
\* on: what it has written stays in the pipe.
ChildClosePipe ==
    /\ proc = "running"
    /\ pipeChildW
    /\ pipeChildW' = FALSE
    /\ UNCHANGED << inputVars, fileVars, outVars, pc, result, celist, idx, ce, runErr,
                    deferRemove, disk, cmdPersistEnv, persistMade, pipeBuf,
                    pipeParentW, pipeReadOpen, procVars, dec, outc, errc, log,
                    applied >>

\* Every write end of the pipe is closed: a read of the empty pipe returns
\* end-of-file.
PipeAtEOF == ~pipeParentW /\ ~pipeChildW

\* One iteration of readPipe's loop: s.Scan() yields a record, the record is
\* split and handed to the handler.  A panic in the goroutine ends the whole
\* program.  Records are taken to be shorter than the scanner's token limit.
DecoderScan ==
    /\ Alive
    /\ dec = "running"
    /\ pipeReadOpen
    /\ LET t == scanNull(pipeBuf, PipeAtEOF)
           r == readPipeRecord(t.token, ce.childDataHandler, cmdPersistEnv)
       IN  /\ t.has
           /\ pipeBuf' = Drop(pipeBuf, t.advance)
           /\ IF r.panic
              THEN /\ pc' = "Crashed"
                   /\ dec' = "panicked"
                   /\ UNCHANGED << cmdPersistEnv, applied >>
              ELSE /\ cmdPersistEnv' = r.env
                   /\ applied' = Append(applied, SplitN(t.token, US, 3))
                   /\ UNCHANGED << pc, dec >>
    /\ UNCHANGED << inputVars, fileVars, outVars, result, celist, idx, ce, runErr, deferRemove,
                    disk, persistMade, pipeParentW, pipeChildW, pipeReadOpen,
                    procVars, outc, errc, log >>

\* s.Scan() returns false at end-of-file; readPipe goes to `stop <- true`.
DecoderEOF ==
    /\ Alive
    /\ dec = "running"
    /\ pipeReadOpen
    /\ PipeAtEOF
    /\ pipeBuf = <<>>
    /\ dec' = "send"
    /\ UNCHANGED << inputVars, fileVars, outVars, pc, result, celist, idx, ce, runErr,
                    deferRemove, disk, cmdPersistEnv, persistMade, pipeVars,
                    procVars, outc, errc, log, applied >>

\* RunCmd has returned early and its deferred Close has closed the read end:
\* the scanner's read fails, s.Scan() returns false.
DecoderReadError ==
    /\ Alive
    /\ dec = "running"
    /\ ~pipeReadOpen
    /\ dec' = "send"
    /\ UNCHANGED << inputVars, fileVars, outVars, pc, result, celist, idx, ce, runErr,
                    deferRemove, disk, cmdPersistEnv, persistMade, pipeVars,
                    procVars, outc, errc, log, applied >>

\* The newline byte.
LF == "LF"

\* bufio.MaxScanTokenSize, the most a Scanner buffers while it looks for the
\* end of a token (64 * 1024 in Go), scaled down so that the lines of
\* OutStreams cross it.
MaxScanTokenSize == 3

\* The capacity of a kernel pipe (64 KiB on Linux), scaled down likewise.
PipeBufSize == 3

Min(a, b) == IF a < b THEN a ELSE b

\* One call of s.Scan() of a Scanner with the default split function
\* (bufio.ScanLines), buf being the bytes written and not yet consumed and
\* closed telling that every write end is closed.  kind is "token" (Scan
\* returns true), "eof" (false, s.Err() nil), "error" (false, the buffer is
\* full and holds no newline: bufio.ErrTooLong) or "wait" (the read blocks).
ScanLine(buf, closed) ==
    LET w == Take(buf, Min(Len(buf), MaxScanTokenSize))
        i == IndexByte(w, LF)
    IN  IF i >= 1
        THEN [kind |-> "token", advance |-> i, token |-> Take(w, i - 1)]
        ELSE IF Len(buf) >= MaxScanTokenSize
        THEN [kind |-> "error", advance |-> 0, token |-> <<>>]
        ELSE IF closed /\ buf # <<>>
        THEN [kind |-> "token", advance |-> Len(buf), token |-> buf]
        ELSE IF closed
        THEN [kind |-> "eof", advance |-> 0, token |-> <<>>]
        ELSE [kind |-> "wait", advance |-> 0, token |-> <<>>]

\* The child writes one byte to its standard output; the write blocks while
\* the Scanner's buffer and the pipe are full.
ChildWriteOut ==
    /\ proc = "running"
    /\ outPend # <<>>
    /\ Len(outPipe) < MaxScanTokenSize + PipeBufSize
    /\ outPipe' = Append(outPipe, Head(outPend))
    /\ outPend' = Tail(outPend)
    /\ UNCHANGED << inputVars, fileVars, pc, result, celist, idx, ce, runErr,
                    deferRemove, disk, cmdPersistEnv, persistMade, pipeVars,
                    procVars, dec, outc, errc, log, applied, errPend, errPipe,
                    logged >>

\* The child writes one byte to its standard error.
ChildWriteErr ==
    /\ proc = "running"
    /\ errPend # <<>>
    /\ Len(errPipe) < MaxScanTokenSize + PipeBufSize
    /\ errPipe' = Append(errPipe, Head(errPend))
    /\ errPend' = Tail(errPend)
    /\ UNCHANGED << inputVars, fileVars, pc, result, celist, idx, ce, runErr,
                    deferRemove, disk, cmdPersistEnv, persistMade, pipeVars,
                    procVars, dec, outc, errc, log, applied, outPend, outPipe,
                    logged >>

\* One iteration of readBuf's loop on the child's standard output: s.Scan()
\* yields a line, which goes to the logger.
StdoutScan ==
    /\ Alive
    /\ outc = "running"
    /\ LET t == ScanLine(outPipe, proc = "exited")
       IN  /\ t.kind = "token"
           /\ outPipe' = Drop(outPipe, t.advance)
           /\ logged' = Append(logged, << "[stdout]", t.token >>)
    /\ UNCHANGED << inputVars, fileVars, pc, result, celist, idx, ce, runErr,
                    deferRemove, disk, cmdPersistEnv, persistMade, pipeVars,
                    procVars, dec, outc, errc, log, applied, outPend, errPend,
                    errPipe >>

\* s.Scan() returns false on a token that is too long; readBuf leaves its
\* loop and goes to `stop <- true`, the rest of the stream unread.
StdoutScanError ==
    /\ Alive
    /\ outc = "running"
    /\ ScanLine(outPipe, proc = "exited").kind = "error"
    /\ outc' = "send"
    /\ UNCHANGED << inputVars, fileVars, outVars, pc, result, celist, idx, ce,
                    runErr, deferRemove, disk, cmdPersistEnv, persistMade,
                    pipeVars, procVars, dec, errc, log, applied >>

\* s.Scan() returns false at the end of the child's standard output; readBuf
\* goes to `stop <- true`.
StdoutEOF ==
    /\ Alive
    /\ outc = "running"
    /\ ScanLine(outPipe, proc = "exited").kind = "eof"
    /\ outc' = "send"
    /\ UNCHANGED << inputVars, fileVars, outVars, pc, result, celist, idx, ce,
                    runErr, deferRemove, disk, cmdPersistEnv, persistMade,
                    pipeVars, procVars, dec, errc, log, applied >>

\* readBuf on the child's standard error, likewise.
StderrScan ==
    /\ Alive
    /\ errc = "running"
    /\ LET t == ScanLine(errPipe, proc = "exited")
       IN  /\ t.kind = "token"
           /\ errPipe' = Drop(errPipe, t.advance)
           /\ logged' = Append(logged, << "[stderr]", t.token >>)
    /\ UNCHANGED << inputVars, fileVars, pc, result, celist, idx, ce, runErr,
                    deferRemove, disk, cmdPersistEnv, persistMade, pipeVars,
                    procVars, dec, outc, errc, log, applied, outPend, errPend,
                    outPipe >>

StderrScanError ==
    /\ Alive
    /\ errc = "running"
    /\ ScanLine(errPipe, proc = "exited").kind = "error"
    /\ errc' = "send"
    /\ UNCHANGED << inputVars, fileVars, outVars, pc, result, celist, idx, ce,
                    runErr, deferRemove, disk, cmdPersistEnv, persistMade,
                    pipeVars, procVars, dec, outc, log, applied >>

StderrEOF ==
    /\ Alive
    /\ errc = "running"
    /\ ScanLine(errPipe, proc = "exited").kind = "eof"
    /\ errc' = "send"
    /\ UNCHANGED << inputVars, fileVars, outVars, pc, result, celist, idx, ce,
                    runErr, deferRemove, disk, cmdPersistEnv, persistMade,
                    pipeVars, procVars, dec, outc, log, applied >>

(***************************************************************************)
(* cmdBuild and cmdShell.                                                  *)
(***************************************************************************)
\* cmdBuild up to its range loop.
CmdBuildSetup ==
    /\ pc = "cmdBuild"
    /\ \/ \* RealPath, isRibDir, mkDirSkel or os.OpenFile fails
          /\ pc' = "Done"
          /\ result' = "err"
          /\ UNCHANGED << celist, idx, cmdPersistEnv, persistMade >>
       \/ \* PrepareParts fails (ioutil.ReadDir)
          /\ pc' = "Done"
          /\ result' = "err"
          /\ cmdPersistEnv' = EmptyMap
          /\ persistMade' = TRUE
          /\ UNCHANGED << celist, idx >>
       \/ /\ cmdPersistEnv' = EmptyMap
          /\ persistMade' = TRUE
          /\ celist' = PrepareParts(Join(WorkDir, PATHNAME_BUILDD), names, seqmin)
          /\ idx' = 1
          /\ IF celist' = <<>>
             THEN pc' = "Done" /\ result' = "nil"
             ELSE pc' = "Loop" /\ result' = result
    /\ UNCHANGED << inputVars, fileVars, outVars, ce, runErr, deferRemove, disk, pipeVars,
                    procVars, dec, outc, errc, log, applied >>

\* The head of the range loop, up to the call of ce.RunCmd().
BuildNext ==
    /\ pc = "Loop"
    /\ IF idx > Len(celist)
       THEN /\ pc' = "Done"
            /\ result' = "nil"
            /\ UNCHANGED << ce, deferRemove, pipeVars, proc, dec, outc, errc, log >>
       ELSE /\ EnterRunCmd([celist[idx] EXCEPT !.workDir = WorkDir,
                                               !.childDataHandler = TRUE])
            /\ UNCHANGED result
    /\ UNCHANGED << inputVars, fileVars, outVars, celist, idx, runErr, disk, cmdPersistEnv,
                    persistMade, exitOK, applied >>

\* A loop that goes on whatever RunCmd returned.
RunFailedNever(err) == FALSE

\* `err != nil` after ce.RunCmd() in the loop.
RunFailed(err) == err # "nil"

\* The error test after ce.RunCmd() in the loop.
BuildAfterRun ==
    /\ pc = "Returned"
    /\ mode = "build"
    /\ IF RunFailed(runErr)
       THEN pc' = "Done" /\ result' = "err" /\ idx' = idx
       ELSE pc' = "Loop" /\ result' = result /\ idx' = idx + 1
    /\ UNCHANGED << inputVars, fileVars, outVars, celist, ce, runErr, deferRemove, disk,
                    cmdPersistEnv, persistMade, pipeVars, procVars, dec, outc,
                    errc, log, applied >>

ShellFlags == {"Einteractive", "Echroot", "Edirectexec", "Efakeroot", "Efakechroot"}

IsBashrc(p) == \E i \in 1..Len(p) : p[i] = ".volatile.bashrc."

\* cmdShell up to the call of ce.RunCmd().
CmdShellSetup ==
    /\ pc = "cmdShell"
    /\ LET c0 == [ZeroCmdEnv EXCEPT
                      !.workDir = WorkDir,
                      !.chrootDir = Join(WorkDir, PATHNAME_ROOTFS),
                      !.fakerootSaveFile = Join(WorkDir, PATHNAME_FAKEROOTSAVE),
                      !.flag = ShellFlags]
       IN  \/ \* RealPath or isRibDir fails, or ioutil.TempFile fails
              /\ pc' = "Done"
              /\ result' = "err"
              /\ UNCHANGED << ce, deferRemove, disk, pipeVars, proc, dec, outc,
                              errc, log >>
           \/ /\ Len(shellargs) > 0
              /\ EnterRunCmd([c0 EXCEPT !.Path = shellargs[1], !.Args = shellargs])
              /\ UNCHANGED << result, disk >>
           \/ /\ Len(shellargs) = 0
              /\ \E s \in TempSuffixes :
                   LET rel == <<".volatile.bashrc.", s>>
                       f   == Join(Join(WorkDir, PATHNAME_ROOTFS), rel)
                   IN  /\ f \notin disk
                       /\ disk' = disk \cup {f}
                       /\ \/ \* f.Write or f.Close fails
                             /\ pc' = "Done"
                             /\ result' = "err"
                             /\ UNCHANGED << ce, deferRemove, pipeVars, proc,
                                             dec, outc, errc, log >>
                          \/ /\ EnterRunCmd([c0 EXCEPT
                                    !.Path = <<"/", "bin", "/", "bash">>,
                                    !.Args = << <<"bash">>, <<"--rcfile">>,
                                                <<"/">> \o rel, <<"-i">> >>])
                             /\ UNCHANGED result
    /\ UNCHANGED << inputVars, fileVars, outVars, celist, idx, runErr, cmdPersistEnv, persistMade,
                    exitOK, applied >>

\* cmdShell after ce.RunCmd(): the error is logged, the deferred os.Remove
\* of the bashrc runs, cmdShell returns nil.
ShellAfterRun ==
    /\ pc = "Returned"
    /\ mode = "shell"
    /\ pc' = "Done"
    /\ result' = "nil"
    /\ disk' = { p \in disk : ~IsBashrc(p) }
    /\ UNCHANGED << inputVars, fileVars, outVars, celist, idx, ce, runErr, deferRemove,
                    cmdPersistEnv, persistMade, pipeVars, procVars, dec, outc,
                    errc, log, applied >>

Next ==
    \/ CmdBuildSetup
    \/ BuildNext
    \/ BuildAfterRun
    \/ CmdShellSetup
    \/ ShellAfterRun
    \/ DoMakeVolatileDirs
    \/ StageCopy
    \/ DoSetEnv
    \/ DoMakeArgs
    \/ OpenPipe
    \/ StdPipes
    \/ StartProc
    \/ CloseWrite
    \/ RecvStdout
    \/ RecvStderr
    \/ RecvPipe
    \/ WaitProc
    \/ ChildExit
    \/ ChildClosePipe
    \/ DecoderScan
    \/ DecoderEOF
    \/ DecoderReadError
    \/ StdoutEOF
    \/ StderrEOF

Spec == Init /\ [][Next]_vars

\* The same with progress: the orchestrator, its goroutines and the child
\* are scheduled, so a step is taken as long as one of them can take one.
SpecLive == Init /\ [][Next]_vars /\ WF_vars(Next)

(***************************************************************************)
(* The side-channel decoder on its own: readPipe runs over a stream that   *)
(* the child has written in full before closing the pipe.                  *)
(***************************************************************************)
\* Records a stream is made of; each is followed by a NUL.
MaxRecords == 3

DecodeRecords ==
    { Record(<<"setenv">>, <<"A">>, <<"1">>),
      Record(<<"setenv">>, <<"A">>, <<"2">>),
      Record(<<"setenv">>, <<"B">>, <<"1", US, "2">>),
      Record(<<"unsetenv">>, <<"A">>, <<>>),
      Record(<<"unsetenv">>, <<"A">>, <<"x">>),
      Record(<<"unsetenv">>, <<"B">>, <<>>),
      Record(<<"other">>, <<"A">>, <<"1">>),
      <<"setenv", US, "A">> }

RECURSIVE StreamsOf(_)
StreamsOf(n) ==
    IF n = 0 THEN { <<>> }
    ELSE LET shorter == StreamsOf(n - 1)
         IN  shorter \cup { s \o r \o <<NUL>> : s \in shorter, r \in DecodeRecords }

\* The streams of at most MaxRecords records, the last record ended by a
\* NUL or by the end of the stream.
DecodeStreams ==
    StreamsOf(MaxRecords)
        \cup { Take(st, Len(st) - 1) : st \in StreamsOf(MaxRecords) \ { <<>> } }

InitDecode ==
    /\ mode = "build"
    /\ names = {}
    /\ seqmin = 0
    /\ shellargs = <<>>
    /\ pc = "RecvPipe"
    /\ result = "none"
    /\ celist = <<>>
    /\ idx = 1
    /\ ce = [ZeroCmdEnv EXCEPT !.workDir = WorkDir, !.childDataHandler = TRUE]
    /\ runErr = "nil"
    /\ deferRemove = FALSE
    /\ disk = {}
    /\ cmdPersistEnv = EmptyMap
    /\ persistMade = TRUE
    /\ pipeBuf \in DecodeStreams
    /\ pipeParentW = FALSE
    /\ pipeChildW = FALSE
    /\ pipeReadOpen = TRUE
    /\ proc = "exited"
    /\ exitOK = TRUE
    /\ dec = "running"
    /\ outc = "none"
    /\ errc = "none"
    /\ log = << [name |-> <<>>, flag |-> {}, proc |-> "started",
                 exit |-> "none", ret |-> "pending", stream |-> pipeBuf] >>
    /\ applied = <<>>
    /\ childOut = <<>>
    /\ childErr = <<>>
    /\ outPend = <<>>
    /\ errPend = <<>>
    /\ outPipe = <<>>
    /\ errPipe = <<>>
    /\ logged = <<>>
    /\ fs = EmptyMap
    /\ call = NoCall

NextDecode == DecoderScan \/ DecoderEOF

SpecDecode == InitDecode /\ [][NextDecode]_vars

(***************************************************************************)
(* PrepareParts on its own: cmdBuild up to its loop, over directories of   *)
(* file names built from digit runs and flag letters.                      *)
(***************************************************************************)
\* Entries of build.d.
MaxEntries == 2

DigitRuns == { <<"0">>, <<"5">>, <<"0", "5">>, <<"1", "0">>, <<"1", "2", "7">>,
               <<"1", "2", "8">>, <<"9", "9", "9">> }

FlagRuns == { <<>>, <<"E">>, <<"C">>, <<"S">>, <<"C", "S">>, <<"X", "I">> }

PartNames ==
    { d \o <<"-">> \o f \o <<"-", "a">> : d \in DigitRuns, f \in FlagRuns }
        \cup { <<"a", "-", "-", "b">>, <<"5", "-", "a", "-", "b">>,
               <<"5", "-", "E">>, <<"-", "E", "-", "a">>, <<"5", "E", "-", "a">> }

PartSeqMins == {0, 5, 10}

InitParts ==
    /\ mode = "build"
    /\ names \in SubsetsUpTo(PartNames, MaxEntries)
    /\ seqmin \in PartSeqMins
    /\ shellargs = <<>>
    /\ pc = "cmdBuild"
    /\ InitRest

NextParts == CmdBuildSetup

SpecParts == InitParts /\ [][NextParts]_vars

(***************************************************************************)
(* The captured branch of RunCmd from the close of the pipe's write end    *)
(* on, for a script that writes to its standard output and standard error. *)
(* In Spec the scripts write nothing there.                                *)
(***************************************************************************)
\* A line that neither the Scanner's buffer nor the buffer and the pipe
\* together can hold.
LongLine == [i \in 1..(MaxScanTokenSize + PipeBufSize + 1) |-> "a"] \o <<LF>>

OutStreams ==
    { <<>>,
      <<"a", LF>>,
      <<"a", LF, "b", LF>>,
      <<LF, "a", "b">>,
      <<"a", "a", "a", LF, "b", LF>>,
      LongLine }

ErrStreams ==
    { <<>>,
      <<"x", LF, "y">>,
      <<"x", "x", "x", "x", LF>> }

CapturedScript == <<"9", "-", "-", "a">>

InitOutput ==
    LET dir == Join(WorkDir, PATHNAME_BUILDD)
        tmp == Join(WorkDir, PATHNAME_TMP) \o <<"/", ".volatile.", "r1">>
        c0  == [PrepareParts(dir, {CapturedScript}, 0)[1] EXCEPT
                   !.workDir = WorkDir,
                   !.childDataHandler = TRUE,
                   !.chrootDir = Join(WorkDir, PATHNAME_ROOTFS),
                   !.fakerootSaveFile = Join(WorkDir, PATHNAME_FAKEROOTSAVE),
                   !.vTmpDir = tmp]
        m   == cmdVolatileEnv(c0)
    IN  /\ mode = "build"
        /\ names = {CapturedScript}
        /\ seqmin = 0
        /\ shellargs = <<>>
        /\ childOut \in OutStreams
        /\ childErr \in ErrStreams
        /\ pc = "RecvStdout"
        /\ result = "none"
        /\ celist = PrepareParts(dir, names, seqmin)
        /\ idx = 1
        /\ ce = [c0 EXCEPT !.Env = SetEnv(c0, EmptyMap, SetToSeq(DOMAIN m), <<>>)]
        /\ runErr = "nil"
        /\ deferRemove = TRUE
        /\ disk = {tmp}
        /\ cmdPersistEnv = EmptyMap
        /\ persistMade = TRUE
        /\ pipeBuf = <<>>
        /\ pipeParentW = FALSE
        /\ pipeChildW = TRUE
        /\ pipeReadOpen = TRUE
        /\ proc = "running"
        /\ exitOK = TRUE
        /\ dec = "running"
        /\ outc = "running"
        /\ errc = "running"
        /\ log = << [name |-> CapturedScript, flag |-> {}, proc |-> "started",
                     exit |-> "none", ret |-> "pending", stream |-> <<>>] >>
        /\ applied = <<>>
        /\ outPend = childOut
        /\ errPend = childErr
        /\ outPipe = <<>>
        /\ errPipe = <<>>
        /\ logged = <<>>
        /\ fs = EmptyMap
        /\ call = NoCall

NextOutput ==
    \/ ChildWriteOut
    \/ ChildWriteErr
    \/ ChildExit
    \/ ChildClosePipe
    \/ StdoutScan
    \/ StdoutScanError
    \/ StdoutEOF
    \/ StderrScan
    \/ StderrScanError
    \/ StderrEOF
    \/ DecoderEOF
    \/ RecvStdout
    \/ RecvStderr
    \/ RecvPipe
    \/ WaitProc

SpecOutput == InitOutput /\ [][NextOutput]_vars

\* The same with progress.
SpecOutputLive == InitOutput /\ [][NextOutput]_vars /\ WF_vars(NextOutput)

(***************************************************************************)
(* SetEnv on its own: RunCmd at its call of ce.SetEnv(), for a chroot and  *)
(* a non-chroot request, over the stores earlier scripts may have left.    *)
(***************************************************************************)
EnvKeys == { <<"PATH">>, <<"VTEMP">>, <<"RIB_EXEC_ENV">>, <<"A">> }

EnvValues == { <<"0">>, <<"/opt">> }

\* The stores: every function from a set of keys to values.
EnvStores == UNION { [K -> EnvValues] : K \in SUBSET EnvKeys }

EnvScripts == { <<"9", "-", "-", "a">>, <<"1", "0", "-", "C", "X", "-", "b">> }

\* The CmdEnv of script `name` as RunCmd has it when it calls ce.SetEnv().
AtSetEnv(name) ==
    LET c0   == PrepareParts(Join(WorkDir, PATHNAME_BUILDD), {name}, 0)[1]
        base == Join(WorkDir, IF "Echroot" \in c0.flag
                              THEN PATHNAME_ROOTFS ELSE PATHNAME_TMP)
    IN  [c0 EXCEPT !.workDir = WorkDir,
                   !.childDataHandler = TRUE,
                   !.chrootDir = Join(WorkDir, PATHNAME_ROOTFS),
                   !.fakerootSaveFile = Join(WorkDir, PATHNAME_FAKEROOTSAVE),
                   !.vTmpDir = base \o <<"/", ".volatile.", "r1">>,
                   !.vExecDir = IF "Echroot" \in c0.flag
                                THEN base \o <<"/", ".exec.", "r1">> ELSE <<>>,
                   !.Path = IF "Echroot" \in c0.flag
                            THEN <<"/", ".exec.", "r1", "/">> \o name
                            ELSE c0.Path]

InitEnv ==
    /\ mode = "build"
    /\ names \in { {n} : n \in EnvScripts }
    /\ seqmin = 0
    /\ shellargs = <<>>
    /\ childOut = <<>>
    /\ childErr = <<>>
    /\ pc = "SetEnv"
    /\ result = "none"
    /\ celist = PrepareParts(Join(WorkDir, PATHNAME_BUILDD), names, seqmin)
    /\ idx = 1
    /\ ce = AtSetEnv(CHOOSE n \in names : TRUE)
    /\ runErr = "nil"
    /\ deferRemove = TRUE
    /\ disk = {ce.vTmpDir, ce.vExecDir} \ { <<>> }
    /\ cmdPersistEnv \in EnvStores
    /\ persistMade = TRUE
    /\ pipeBuf = <<>>
    /\ pipeParentW = FALSE
    /\ pipeChildW = FALSE
    /\ pipeReadOpen = FALSE
    /\ proc = "none"
    /\ exitOK = TRUE
    /\ dec = "none"
    /\ outc = "none"
    /\ errc = "none"
    /\ log = << [name |-> CHOOSE n \in names : TRUE, flag |-> ce.flag,
                 proc |-> "none", exit |-> "none", ret |-> "pending",
                 stream |-> <<>>] >>
    /\ applied = <<>>
    /\ outPend = <<>>
    /\ errPend = <<>>
    /\ outPipe = <<>>
    /\ errPipe = <<>>
    /\ logged = <<>>
    /\ fs = EmptyMap
    /\ call = NoCall

NextEnv == DoSetEnv

SpecEnv == InitEnv /\ [][NextEnv]_vars

(***************************************************************************)
(* MakeArgs on its own: RunCmd at its call of ce.MakeArgs() with a CmdEnv   *)
(* of any wrapper flags, with and without a path, arguments, a chroot      *)
(* directory and a fakeroot save file.                                     *)
(***************************************************************************)
WrapperFlags == {"Echroot", "Efakeroot", "Efakechroot"}

ArgsPaths == { <<>>, <<"/", "p">> }

ArgsVectors == { <<>>, << <<"p0">> >>, << <<"p0">>, <<"x">> >> }

ArgsCmdEnvs ==
    { [ZeroCmdEnv EXCEPT !.flag = f, !.Path = path, !.Args = args,
                         !.workDir = WorkDir, !.chrootDir = root,
                         !.fakerootSaveFile = save] :
        f \in SUBSET WrapperFlags,
        path \in ArgsPaths,
        args \in ArgsVectors,
        root \in { <<>>, Join(WorkDir, PATHNAME_ROOTFS) },
        save \in { <<>>, Join(WorkDir, PATHNAME_FAKEROOTSAVE) } }

InitArgs ==
    /\ mode = "shell"
    /\ names = {}
    /\ seqmin = 0
    /\ shellargs = <<>>
    /\ childOut = <<>>
    /\ childErr = <<>>
    /\ pc = "MakeArgs"
    /\ result = "none"
    /\ celist = <<>>
    /\ idx = 1
    /\ ce \in ArgsCmdEnvs
    /\ runErr = "nil"
    /\ deferRemove = FALSE
    /\ disk = {}
    /\ cmdPersistEnv = EmptyMap
    /\ persistMade = FALSE
    /\ pipeBuf = <<>>
    /\ pipeParentW = FALSE
    /\ pipeChildW = FALSE
    /\ pipeReadOpen = FALSE
    /\ proc = "none"
    /\ exitOK = TRUE
    /\ dec = "none"
    /\ outc = "none"
    /\ errc = "none"
    /\ log = << [name |-> <<>>, flag |-> ce.flag, proc |-> "none",
                 exit |-> "none", ret |-> "pending", stream |-> <<>>] >>
    /\ applied = <<>>
    /\ outPend = <<>>
    /\ errPend = <<>>
    /\ outPipe = <<>>
    /\ errPipe = <<>>
    /\ logged = <<>>
    /\ fs = EmptyMap
    /\ call = NoCall

NextArgs == DoMakeArgs

SpecArgs == InitArgs /\ [][NextArgs]_vars

(***************************************************************************)
(* The file system.  A path is the sequence of its components below a base *)
(* directory that exists and that the user may read, search and write; fs  *)
(* maps the paths that exist to their nodes.  kind is "file" (a regular    *)
(* file), "dir" or "special" (a device); r tells that the user may open    *)
(* the node for reading (and search it, for a directory), w that the user  *)
(* may write it (create and remove entries, for a directory).              *)
(***************************************************************************)
File(size, r) == [kind |-> "file", size |-> size, r |-> r, w |-> TRUE]

Special == [kind |-> "special", size |-> 0, r |-> TRUE, w |-> TRUE]

Dir(r, w) == [kind |-> "dir", size |-> 0, r |-> r, w |-> w]

Parent(p) == Take(p, Len(p) - 1)

NodeAt(f, p) == IF p = <<>> THEN Dir(TRUE, TRUE) ELSE f[p]

\* The entries of directory p.
Children(f, p) ==
    { q \in DOMAIN f : Len(q) = Len(p) + 1 /\ Take(q, Len(p)) = p }

\* Path resolution of p, as stat(2) does it: "nil", or the error of the
\* first component that is missing (ENOENT), or that has to be searched and
\* is not a directory (ENOTDIR) or may not be searched (EACCES).
LookupErr(f, p) ==
    LET bad == { i \in 1..Len(p) :
                   \/ Take(p, i) \notin DOMAIN f
                   \/ /\ i < Len(p)
                      /\ \/ f[Take(p, i)].kind # "dir"
                         \/ ~f[Take(p, i)].r }
    IN  IF bad = {} THEN "nil"
        ELSE LET i == CHOOSE i \in bad : \A j \in bad : i <= j
                 q == Take(p, i)
             IN  IF q \notin DOMAIN f THEN "ENOENT"
                 ELSE IF f[q].kind # "dir" THEN "ENOTDIR"
                 ELSE "EACCES"

\* os.Stat(p)
Stat(f, p) == LookupErr(f, p)

\* os.Open(p): open for reading.
Open(f, p) ==
    LET e == LookupErr(f, p)
    IN  IF e # "nil" THEN e
        ELSE IF ~NodeAt(f, p).r THEN "EACCES"
        ELSE "nil"

\* The error of making a new entry p in its parent directory, "nil" when
\* the parent can take it.
ParentErr(f, p) ==
    LET e == LookupErr(f, Parent(p))
    IN  IF e # "nil" THEN e
        ELSE IF NodeAt(f, Parent(p)).kind # "dir" THEN "ENOTDIR"
        ELSE IF ~NodeAt(f, Parent(p)).r THEN "EACCES"
        ELSE IF p \notin DOMAIN f /\ ~NodeAt(f, Parent(p)).w THEN "EACCES"
        ELSE "nil"

\* os.Create(p): open for reading and writing, create or truncate.
Create(f, p) ==
    LET e == ParentErr(f, p)
    IN  IF e # "nil" THEN [err |-> e, fs |-> f]
        ELSE IF p \notin DOMAIN f
        THEN [err |-> "nil", fs |-> f @@ (p :> File(0, TRUE))]
        ELSE IF f[p].kind = "dir" THEN [err |-> "EISDIR", fs |-> f]
        ELSE IF ~f[p].r \/ ~f[p].w THEN [err |-> "EACCES", fs |-> f]
        ELSE IF f[p].kind = "file"
        THEN [err |-> "nil", fs |-> [f EXCEPT ![p].size = 0]]
        ELSE [err |-> "nil", fs |-> f]

\* os.Mkdir(p, 0755)
Mkdir(f, p) ==
    LET e == ParentErr(f, p)
    IN  IF e # "nil" THEN [err |-> e, fs |-> f]
        ELSE IF p \in DOMAIN f THEN [err |-> "EEXIST", fs |-> f]
        ELSE [err |-> "nil", fs |-> f @@ (p :> Dir(TRUE, TRUE))]

\* os.MkdirAll(p, 0755): nil when p is a directory, an error when it is
\* something else, and otherwise the parent is made first and then p.
RECURSIVE MkdirAll(_, _)
MkdirAll(f, p) ==
    IF p = <<>> THEN [err |-> "nil", fs |-> f]
    ELSE IF Stat(f, p) = "nil"
    THEN IF f[p].kind = "dir" THEN [err |-> "nil", fs |-> f]
         ELSE [err |-> "ENOTDIR", fs |-> f]
    ELSE LET up == MkdirAll(f, Parent(p))
         IN  IF up.err # "nil" THEN up ELSE Mkdir(up.fs, p)

\* EnsureFile without the test for a directory.
EnsureFileNoDirTest(f, p) ==
    LET o == Open(f, p)
    IN  IF o = "nil" THEN [err |-> "nil", fs |-> f]
        ELSE IF o # "ENOENT" THEN [err |-> o, fs |-> f]
        ELSE Create(f, p)

\* EnsureFile(pathname): the error and the file system afterwards.
EnsureFile(f, p) ==
    LET o == Open(f, p)
    IN  IF o = "nil"
        THEN IF NodeAt(f, p).kind = "dir"
             THEN [err |-> "file is a directory", fs |-> f]
             ELSE [err |-> "nil", fs |-> f]
        ELSE IF o # "ENOENT" THEN [err |-> o, fs |-> f]
        ELSE Create(f, p)

\* The os.Stat and IsDir test that ends EnsureDir.
EnsureDirStat(f, p) ==
    IF Stat(f, p) # "nil" THEN [err |-> Stat(f, p), fs |-> f]
    ELSE IF NodeAt(f, p).kind # "dir" THEN [err |-> "not a directory", fs |-> f]
    ELSE [err |-> "nil", fs |-> f]

\* EnsureDir without that test.
EnsureDirNoStat(f, p) ==
    LET o == Open(f, p)
    IN  IF o = "nil" THEN [err |-> "nil", fs |-> f]
        ELSE IF o # "ENOENT" THEN [err |-> o, fs |-> f]
        ELSE MkdirAll(f, p)

\* EnsureDir(pathname): the error and the file system afterwards.
EnsureDir(f, p) ==
    LET o == Open(f, p)
    IN  IF o = "nil" THEN EnsureDirStat(f, p)
        ELSE IF o # "ENOENT" THEN [err |-> o, fs |-> f]
        ELSE LET m == MkdirAll(f, p)
             IN  IF m.err # "nil" THEN m ELSE EnsureDirStat(m.fs, p)

\* IsEmpty that does not look at the size of a file.
IsEmptyIgnoreSize(f, p) ==
    LET o == Open(f, p)
    IN  IF o # "nil" THEN [empty |-> FALSE, err |-> o]
        ELSE IF NodeAt(f, p).kind = "dir" /\ Children(f, p) # {}
        THEN [empty |-> FALSE, err |-> "nil"]
        ELSE [empty |-> TRUE, err |-> "nil"]

\* IsEmpty(pathname).  f.Stat() and f.Readdirnames(1) act on the open file
\* and do not fail here.
IsEmpty(f, p) ==
    LET o == Open(f, p)
    IN  IF o # "nil" THEN [empty |-> FALSE, err |-> o]
        ELSE IF NodeAt(f, p).kind # "dir" /\ NodeAt(f, p).size > 0
        THEN [empty |-> FALSE, err |-> "nil"]
        ELSE IF NodeAt(f, p).kind = "dir" /\ Children(f, p) # {}
        THEN [empty |-> FALSE, err |-> "nil"]
        ELSE [empty |-> TRUE, err |-> "nil"]

(***************************************************************************)
(* The file helpers on their own: one call of EnsureFile, EnsureDir or     *)
(* IsEmpty on a small file system.                                         *)
(***************************************************************************)
FilePaths == { <<"a">>, <<"b">>, <<"a", "a">>, <<"a", "b">> }

\* The paths the helpers are called on: those of FilePaths and paths below
\* "b", whose parents may be missing or no directory.
CallPaths == FilePaths \cup { <<"b", "a">>, <<"b", "a", "a">> }

FileSizes == {0, 1}

FileNodes ==
    { File(n, TRUE) : n \in FileSizes }
        \cup { File(0, FALSE), Special,
               Dir(TRUE, TRUE), Dir(TRUE, FALSE), Dir(FALSE, FALSE) }

\* An entry exists only in a directory that exists.
WellFormed(f) ==
    \A q \in DOMAIN f :
        Len(q) > 1 => Parent(q) \in DOMAIN f /\ f[Parent(q)].kind = "dir"

FileSystems ==
    { f \in UNION { [P -> FileNodes] : P \in SUBSET FilePaths } : WellFormed(f) }

InitFile ==
    /\ mode = "file"
    /\ names = {}
    /\ seqmin = 0
    /\ shellargs = <<>>
    /\ pc = "helpers"
    /\ InitRun
    /\ fs \in FileSystems
    /\ call = NoCall

CallEnsureFile ==
    /\ call.op = "none"
    /\ \E p \in CallPaths :
         LET r == EnsureFile(fs, p)
         IN  /\ fs' = r.fs
             /\ call' = [call EXCEPT !.op = "EnsureFile", !.path = p,
                                     !.err = r.err, !.before = fs]
    /\ UNCHANGED runVars

CallEnsureDir ==
    /\ call.op = "none"
    /\ \E p \in CallPaths :
         LET r == EnsureDir(fs, p)
         IN  /\ fs' = r.fs
             /\ call' = [call EXCEPT !.op = "EnsureDir", !.path = p,
                                     !.err = r.err, !.before = fs]
    /\ UNCHANGED runVars

CallIsEmpty ==
    /\ call.op = "none"
    /\ \E p \in CallPaths :
         LET r == IsEmpty(fs, p)
         IN  /\ fs' = fs
             /\ call' = [call EXCEPT !.op = "IsEmpty", !.path = p,
                                     !.err = r.err, !.empty = r.empty,
                                     !.before = fs]
    /\ UNCHANGED runVars

NextFile == CallEnsureFile \/ CallEnsureDir \/ CallIsEmpty

SpecFile == InitFile /\ [][NextFile]_vars

(***************************************************************************)
(* rib clean.  The work directory is the base directory of the file        *)
(* system, so the pathname of a skeleton entry is its path.                *)
(***************************************************************************)
PATHNAME_RIB == <<"._RIB_">>

PATHNAME_DIST == <<"dist">>

PATHNAME_FILES == <<"files">>

PATHNAME_LOG == <<"log">>

\* The work directory after RealPath.
CleanDir == <<>>

\* q is p or lies below p.
Below(p, q) == Len(q) >= Len(p) /\ Take(q, Len(p)) = p

\* q can be unlinked: its directory may be searched and written, and so can
\* every entry of q.
RECURSIVE CanRemove(_, _)
CanRemove(f, q) ==
    /\ NodeAt(f, Parent(q)).r
    /\ NodeAt(f, Parent(q)).w
    /\ \A c \in Children(f, q) : CanRemove(f, c)

\* os.RemoveAll(p): nil when p does not exist; otherwise it removes what it
\* can reach and unlink below p, and p itself, and returns an error when
\* something is left.
RemoveAll(f, p) ==
    IF p \notin DOMAIN f THEN [err |-> "nil", fs |-> f]
    ELSE LET gone == { q \in DOMAIN f :
                         /\ Below(p, q)
                         /\ CanRemove(f, q)
                         /\ \A i \in Len(p)..(Len(q) - 1) : f[Take(q, i)].r }
         IN  [err |-> IF p \in gone THEN "nil" ELSE "EACCES",
              fs  |-> [q \in DOMAIN f \ gone |-> f[q]]]

\* isRibDir(dir)
isRibDir(f, dir) ==
    /\ Stat(f, dir \o PATHNAME_RIB) = "nil"
    /\ f[dir \o PATHNAME_RIB].kind # "dir"

\* The loop of mkDirSkel from entry i of dirSkeleton on.
RECURSIVE mkDirSkelFrom(_, _, _)
mkDirSkelFrom(f, root, i) ==
    IF i > Len(dirSkeleton) THEN [err |-> "nil", fs |-> f]
    ELSE LET d == dirSkeleton[i]
             e == IF d.filetype = "FILE"
                  THEN EnsureFile(f, root \o d.pathname)
                  ELSE EnsureDir(f, root \o d.pathname)
         IN  IF e.err # "nil" THEN e ELSE mkDirSkelFrom(e.fs, root, i + 1)

\* mkDirSkel(root)
mkDirSkel(f, root) == mkDirSkelFrom(f, root, 1)

\* Targets that hold dist and log with or without --all.
cleanTargetsAll(all) ==
    << PATHNAME_ROOTFS, PATHNAME_TMP, PATHNAME_FAKEROOTSAVE,
       PATHNAME_DIST, PATHNAME_LOG >>

\* The cleanup targets of cmdClean.
cleanTargets(all) ==
    << PATHNAME_ROOTFS, PATHNAME_TMP, PATHNAME_FAKEROOTSAVE >>
        \o (IF all THEN << PATHNAME_DIST, PATHNAME_LOG >> ELSE <<>>)

\* The loop of cmdClean that deletes the targets, from target i on.
RECURSIVE removeTargets(_, _, _, _)
removeTargets(f, workDir, targets, i) ==
    IF i > Len(targets) THEN [err |-> "nil", fs |-> f]
    ELSE LET r == RemoveAll(f, workDir \o targets[i])
         IN  IF r.err # "nil" THEN r
             ELSE removeTargets(r.fs, workDir, targets, i + 1)

\* cmdClean without the test of the marker file.
cmdCleanNoMarkerTest(f, workDir, all) ==
    LET r == removeTargets(f, workDir, cleanTargets(all), 1)
    IN  IF r.err # "nil" THEN r ELSE mkDirSkel(r.fs, workDir)

\* cmdClean(workDir, all): the error and the file system afterwards.
cmdClean(f, workDir, all) ==
    IF ~isRibDir(f, workDir) THEN [err |-> "invalid directory", fs |-> f]
    ELSE LET r == removeTargets(f, workDir, cleanTargets(all), 1)
         IN  IF r.err # "nil" THEN r ELSE mkDirSkel(r.fs, workDir)

\* What may be found at a skeleton pathname n before rib clean.
EmptyDir(n) == n :> Dir(TRUE, TRUE)

FullDir(n, w) == (n :> Dir(TRUE, w)) @@ ((n \o <<"x">>) :> File(1, TRUE))

FileAt(n, size) == n :> File(size, TRUE)

DirStates(n) == { EmptyMap, EmptyDir(n), FullDir(n, TRUE) }

\* The work directories rib clean is run in: with or without the marker
\* file, each directory absent, empty or with a file in it, rootfs also
\* write-protected, and a file where build.d, rootfs or dist should be.
CleanSystems ==
    { m @@ b @@ r @@ n @@ d @@ fl @@ t @@ l @@ s :
        m \in { EmptyMap, FileAt(PATHNAME_RIB, 0) },
        b \in { EmptyDir(PATHNAME_BUILDD), FileAt(PATHNAME_BUILDD, 0) },
        r \in DirStates(PATHNAME_ROOTFS)
                \cup { FullDir(PATHNAME_ROOTFS, FALSE), FileAt(PATHNAME_ROOTFS, 1) },
        n \in { EmptyMap, EmptyDir(PATHNAME_BIN) },
        d \in DirStates(PATHNAME_DIST) \cup { FileAt(PATHNAME_DIST, 1) },
        fl \in { EmptyDir(PATHNAME_FILES) },
        t \in DirStates(PATHNAME_TMP),
        l \in DirStates(PATHNAME_LOG),
        s \in { EmptyMap, FileAt(PATHNAME_FAKEROOTSAVE, 0),
                FileAt(PATHNAME_FAKEROOTSAVE, 1) } }

InitClean ==
    /\ mode = "clean"
    /\ names = {}
    /\ seqmin = 0
    /\ shellargs = <<>>
    /\ pc = "cmdClean"
    /\ InitRun
    /\ fs \in CleanSystems
    /\ call = NoCall

CmdClean ==
    /\ call.op = "none"
    /\ \E all \in BOOLEAN :
         LET r == cmdClean(fs, CleanDir, all)
         IN  /\ fs' = r.fs
             /\ call' = [call EXCEPT !.op = "cmdClean", !.all = all,
                                     !.err = r.err, !.before = fs]
    /\ pc' = "exit"
    /\ UNCHANGED << inputVars, outVars, result, celist, idx, ce, runErr,
                    deferRemove, disk, cmdPersistEnv, persistMade, pipeVars,
                    procVars, dec, outc, errc, log, applied >>

NextClean == CmdClean

SpecClean == InitClean /\ [][NextClean]_vars

(***************************************************************************)
(* rib init                                                                *)
(***************************************************************************)
\* cmdInit without the test that the directory is empty.
cmdInitNoEmptyTest(f, workDir) ==
    LET e == EnsureDir(f, workDir)
    IN  IF e.err # "nil" THEN e
        ELSE IF isRibDir(e.fs, workDir)
        THEN [err |-> "already initialized", fs |-> e.fs]
        ELSE mkDirSkel(e.fs, workDir)

\* cmdInit(workDir): the error and the file system afterwards.
cmdInit(f, workDir) ==
    LET e == EnsureDir(f, workDir)
    IN  IF e.err # "nil" THEN e
        ELSE IF isRibDir(e.fs, workDir)
        THEN [err |-> "already initialized", fs |-> e.fs]
        ELSE LET m == IsEmpty(e.fs, workDir)
             IN  IF m.err # "nil" THEN [err |-> m.err, fs |-> e.fs]
                 ELSE IF ~m.empty THEN [err |-> "not empty", fs |-> e.fs]
                 ELSE mkDirSkel(e.fs, workDir)

\* The directories rib init is run on: one in the base directory and one
\* in a directory that may be missing.
InitDirs == { <<"w">>, <<"n", "w">> }

\* The whole skeleton below directory w.
Skeleton(w) ==
    [q \in { w \o dirSkeleton[i].pathname : i \in 1..Len(dirSkeleton) } |->
        IF \E i \in 1..Len(dirSkeleton) :
               w \o dirSkeleton[i].pathname = q /\ dirSkeleton[i].filetype = "FILE"
        THEN File(0, TRUE) ELSE Dir(TRUE, TRUE)]

\* What may be found at w before rib init: nothing, a file, a directory
\* that is empty (and may be write-protected or unreadable), that holds a
\* file or a directory, that holds the marker as a file or as a directory,
\* or that holds the whole skeleton.
InitStates(w) ==
    { EmptyMap, FileAt(w, 0), EmptyDir(w),
      w :> Dir(TRUE, FALSE), w :> Dir(FALSE, FALSE),
      FullDir(w, TRUE), FullDir(w, FALSE),
      EmptyDir(w) @@ EmptyDir(w \o PATHNAME_ROOTFS),
      EmptyDir(w) @@ FileAt(w \o PATHNAME_RIB, 0),
      EmptyDir(w) @@ EmptyDir(w \o PATHNAME_RIB),
      (w :> Dir(FALSE, FALSE)) @@ FileAt(w \o PATHNAME_RIB, 0),
      EmptyDir(w) @@ Skeleton(w) }

InitSystems ==
    { a @@ b : a \in InitStates(<<"w">>),
               b \in { EmptyMap, FileAt(<<"n">>, 0), <<"n">> :> Dir(TRUE, FALSE) }
                        \cup { EmptyDir(<<"n">>) @@ c : c \in InitStates(<<"n", "w">>) } }

InitInit ==
    /\ mode = "init"
    /\ names = {}
    /\ seqmin = 0
    /\ shellargs = <<>>
    /\ pc = "cmdInit"
    /\ InitRun
    /\ fs \in InitSystems
    /\ call = NoCall

CmdInit ==
    /\ call.op = "none"
    /\ \E w \in InitDirs :
         LET r == cmdInit(fs, w)
         IN  /\ fs' = r.fs
             /\ call' = [call EXCEPT !.op = "cmdInit", !.path = w,
                                     !.err = r.err, !.before = fs]
    /\ pc' = "exit"
    /\ UNCHANGED << inputVars, outVars, result, celist, idx, ce, runErr,
                    deferRemove, disk, cmdPersistEnv, persistMade, pipeVars,
                    procVars, dec, outc, errc, log, applied >>

NextInit == CmdInit

SpecInit == InitInit /\ [][NextInit]_vars

(***************************************************************************)
(* rib init, rib clean and the skeleton set-up of rib build, one command   *)
(* after the other on one work directory, with the build scripts filling   *)
(* the directories in between.                                             *)
(***************************************************************************)
LifeDir == <<"w">>

\* cmdBuild up to the skeleton set-up: the error it returns there, "nil"
\* when it goes on to open the log and run the scripts.
cmdBuildSkel(f, workDir) ==
    IF ~isRibDir(f, workDir)
    THEN [err |-> "directory not initialized", fs |-> f]
    ELSE mkDirSkel(f, workDir)

\* The directories the scripts of a build write to.
ScriptDirs == { PATHNAME_ROOTFS, PATHNAME_TMP, PATHNAME_DIST, PATHNAME_LOG }

\* The work directory before the first command: absent, empty, holding a
\* rootfs with a file but no marker, or holding a directory of the marker's
\* name.
LifeSystems ==
    { EmptyMap, EmptyDir(LifeDir),
      EmptyDir(LifeDir) @@ FullDir(LifeDir \o PATHNAME_ROOTFS, TRUE),
      EmptyDir(LifeDir) @@ EmptyDir(LifeDir \o PATHNAME_RIB)
          @@ FullDir(LifeDir \o PATHNAME_TMP, TRUE) }

InitLife ==
    /\ mode = "life"
    /\ names = {}
    /\ seqmin = 0
    /\ shellargs = <<>>
    /\ pc = "cmd"
    /\ InitRun
    /\ fs \in LifeSystems
    /\ call = NoCall

LifeUnchanged ==
    UNCHANGED << inputVars, outVars, pc, celist, idx, ce, runErr,
                 deferRemove, disk, cmdPersistEnv, persistMade, pipeVars,
                 procVars, dec, outc, errc, log, applied >>

\* rib init; result is "nil" from the first time it returns nil.
LifeInit ==
    /\ LET r == cmdInit(fs, LifeDir)
       IN  /\ fs' = r.fs
           /\ call' = [call EXCEPT !.op = "cmdInit", !.path = LifeDir,
                                   !.all = FALSE, !.err = r.err, !.before = fs]
           /\ result' = IF r.err = "nil" THEN "nil" ELSE result
    /\ LifeUnchanged

\* rib clean, with or without --all.
LifeClean ==
    /\ \E all \in BOOLEAN :
         LET r == cmdClean(fs, LifeDir, all)
         IN  /\ fs' = r.fs
             /\ call' = [call EXCEPT !.op = "cmdClean", !.path = LifeDir,
                                     !.all = all, !.err = r.err, !.before = fs]
    /\ UNCHANGED result
    /\ LifeUnchanged

\* rib build up to the skeleton set-up.
LifeBuild ==
    /\ LET r == cmdBuildSkel(fs, LifeDir)
       IN  /\ fs' = r.fs
           /\ call' = [call EXCEPT !.op = "cmdBuild", !.path = LifeDir,
                                   !.all = FALSE, !.err = r.err, !.before = fs]
    /\ UNCHANGED result
    /\ LifeUnchanged

\* A script of a build leaves a file in one of its directories, and may
\* leave the directory write-protected.
LifeScript ==
    /\ \E d \in ScriptDirs, w \in BOOLEAN :
         /\ IsEmpty(fs, LifeDir \o d) = [empty |-> TRUE, err |-> "nil"]
         /\ fs[LifeDir \o d].w
         /\ fs' = FullDir(LifeDir \o d, w) @@ fs
    /\ call' = [call EXCEPT !.op = "script", !.path = LifeDir,
                            !.all = FALSE, !.err = "nil", !.before = fs]
    /\ UNCHANGED result
    /\ LifeUnchanged

NextLife == LifeInit \/ LifeClean \/ LifeBuild \/ LifeScript

SpecLife == InitLife /\ [][NextLife]_vars

(***************************************************************************)
(* Properties.                                                             *)
(***************************************************************************)
Range(f) == { f[i] : i \in DOMAIN f }

\* The tokens the scanner yields over a whole stream read to end-of-file.
RECURSIVE ScanAll(_)
ScanAll(data) ==
    LET t == scanNull(data, TRUE)
    IN  IF ~t.has THEN <<>>
        ELSE << t.token >> \o ScanAll(Drop(data, t.advance))

\* The records of a stream, each split into its fields.
ParseStream(stream) ==
    LET toks == ScanAll(stream)
    IN  [i \in 1..Len(toks) |-> SplitN(toks[i], US, 3)]

HasMalformed(stream) == \E r \in Range(ParseStream(stream)) : Len(r) < 3

\* The store a sequence of well-formed records stands for, said without
\* replaying them: a key is present when some setenv of it is followed by no
\* unsetenv of it, and its value is that of its last setenv.
RefStore(recs) ==
    LET sets(k) == { i \in 1..Len(recs) :
                       /\ recs[i][1] = <<"setenv">>
                       /\ recs[i][2] = k
                       /\ \A j \in (i + 1)..Len(recs) :
                            ~(recs[j][1] = <<"unsetenv">> /\ recs[j][2] = k) }
        keys    == { recs[i][2] : i \in 1..Len(recs) }
        last(k) == CHOOSE i \in sets(k) : \A j \in sets(k) : j <= i
    IN  [k \in { k \in keys : sets(k) # {} } |-> recs[last(k)][3]]

RECURSIVE ConcatAll(_)
ConcatAll(ss) == IF ss = <<>> THEN <<>> ELSE Head(ss) \o ConcatAll(Tail(ss))

\* The records emitted by the requests that ran before request j.
RecordsBefore(j) ==
    ConcatAll([i \in 1..(j - 1) |-> ParseStream(log[i].stream)])

\* The sequence number of a file name that matches the grammar.
SeqOf(name) == Atoi(FindStringSubmatch(name)[2]).val

\* The value of a digit run as a natural number of any size.
RECURSIVE NumAcc(_, _)
NumAcc(s, acc) ==
    IF s = <<>> THEN acc ELSE NumAcc(Tail(s), acc * 10 + DigitVal(Head(s)))

ChrootImplies(flag) ==
    "Echroot" \in flag => "Efakeroot" \in flag /\ "Efakechroot" \in flag

----------------------------------------------------------------------------
\* C1: when RunCmd has returned, on every exit path, neither the temp
\* directory nor the exec-staging directory made for the request exists.
\* The code breaks this: MakeVolatileDirs' error returns before the removal
\* is deferred, so a temp directory made before the exec-staging directory
\* failed stays on disk.
C1_NoVolatileDirAfterReturn ==
    pc = "Returned" => \A d \in {ce.vTmpDir, ce.vExecDir} : d \notin disk

\* C2: a side-channel record with fewer than three fields ends in RunCmd
\* returning an error with the volatile directories released, and never in
\* the abnormal end of the orchestrator.  The code breaks this: readPipe
\* indexes the split without a length test and panics.
C2_MalformedRecordConfined ==
    (mode = "build" /\ Len(log) > 0 /\ HasMalformed(log[Len(log)].stream)) =>
        /\ pc # "Crashed"
        /\ pc = "Returned" =>
              /\ runErr # "nil"
              /\ \A d \in {ce.vTmpDir, ce.vExecDir} : d \notin disk

\* C3: in cmdBuild, a request without ignore-exit whose process exits
\* non-zero is the last request ever started and cmdBuild returns the error;
\* with ignore-exit the next request of the list is started.
C3_FailureHaltsUnlessIgnored ==
    mode = "build" =>
      \A i \in 1..Len(log) :
        log[i].exit = "nonzero" =>
          IF "Eignoreexit" \notin log[i].flag
          THEN /\ log[i].ret = "Exit"
               /\ Len(log) = i
               /\ \/ pc = "Returned" /\ runErr = "Exit"
                  \/ pc = "Done" /\ result = "err"
          ELSE /\ log[i].ret = "nil"
               /\ i < Len(celist) =>
                    \/ Len(log) = i /\ pc \in {"Returned", "Loop"}
                    \/ Len(log) > i /\ log[i + 1].name = Base(celist[i + 1].Path)

C3_Witness ==
    /\ mode = "build"
    /\ Len(log) = 2
    /\ log[1].exit = "nonzero"
    /\ "Eignoreexit" \in log[1].flag
    /\ log[2].proc = "started"

\* C4 as stated: with ignore-exit RunCmd returns success when the process
\* exits non-zero and when it fails to start; without it both return the
\* error.
C4_Original ==
    \A i \in 1..Len(log) :
      (log[i].ret # "pending" /\ (log[i].exit = "nonzero" \/ log[i].proc = "startfailed")) =>
          (log[i].ret = "nil" <=> "Eignoreexit" \in log[i].flag)

\* C4, amended: with ignore-exit RunCmd returns success when the process
\* exits non-zero; a failure to start is returned as an error whether or not
\* ignore-exit is set; without ignore-exit both return the error.
C4_IgnoreExitCoversExitOnly ==
    \A i \in 1..Len(log) :
      log[i].ret # "pending" =>
        /\ log[i].exit = "nonzero" =>
              (log[i].ret = "nil" <=> "Eignoreexit" \in log[i].flag)
        /\ log[i].exit = "nonzero" /\ "Eignoreexit" \notin log[i].flag =>
              log[i].ret = "Exit"
        /\ log[i].proc = "startfailed" => log[i].ret = "Start"

C4_Witness ==
    /\ Len(log) = 2
    /\ "Eignoreexit" \in log[1].flag
    /\ log[1].exit = "nonzero"
    /\ log[1].ret = "nil"
    /\ "Eignoreexit" \in log[2].flag
    /\ log[2].proc = "startfailed"
    /\ log[2].ret = "Start"

C7_StartedInNumericOrder ==
    mode = "build" =>
      \A i, j \in 1..Len(log) :
        (i < j /\ log[i].proc = "started" /\ log[j].proc = "started") =>
            ~(SeqOf(log[j].name) < SeqOf(log[i].name))

\* C8: PrepareParts returns exactly the entries that match the grammar,
\* carry no S and whose digit run, of any length, read as a base-10 number
\* is at least seqmin.  The code breaks this: a digit run that does not fit
\* an int is a strconv.Atoi error and the entry is skipped.
C8_PartsAreMatchingEntries ==
    (mode = "build" /\ pc \in {"Loop", "Done"} /\ persistMade /\ result # "err") =>
        { Base(celist[i].Path) : i \in 1..Len(celist) } =
            { n \in names :
                LET g == FindStringSubmatch(n)
                IN  /\ Len(g) = 3
                    /\ "S" \notin Range(g[3])
                    /\ NumAcc(g[2], 0) >= seqmin }

\* Flag-letter strings of up to this length.
MaxFlagLetters == 3

RECURSIVE LetterStrings(_)
LetterStrings(n) ==
    IF n = 0 THEN { <<>> }
    ELSE LET shorter == LetterStrings(n - 1)
         IN  shorter \cup { Append(s, c) : s \in shorter, c \in Upper }

AnyLettersChrootImplies ==
    \A letters \in LetterStrings(MaxFlagLetters) : ChrootImplies(ParseFlags(letters))

\* C9: every request that reaches RunCmd, from PrepareParts on any string of
\* flag letters or from cmdShell, has fakeroot and fakechroot whenever it
\* has chroot, and no step of RunCmd changes its flags.
C9_ChrootImpliesFakes ==
    /\ AnyLettersChrootImplies
    /\ \A i \in 1..Len(celist) : ChrootImplies(celist[i].flag)
    /\ Len(log) > 0 =>
          /\ ChrootImplies(ce.flag)
          /\ ce.flag = log[Len(log)].flag
          /\ mode = "build" =>
                ce.flag = ParseFlags(FindStringSubmatch(log[Len(log)].name)[3])
          /\ mode = "shell" => ce.flag = ShellFlags

C9_Witness ==
    /\ mode = "build"
    /\ pc = "Wait"
    /\ "Echroot" \in ce.flag
    /\ "Efakeroot" \in ce.flag

\* C10: for a request with chroot, fakeroot and fakechroot and a save file,
\* MakeArgs yields the fakechroot location as path and, as argv, fakechroot
\* --environment debootstrap -- fakeroot -s save -i save -- chroot root,
\* then the original path, then the original arguments after argv[0].
C10_FullChrootArgv ==
    [][ ( /\ pc = "MakeArgs"
          /\ pc' = "Pipe"
          /\ {"Echroot", "Efakeroot", "Efakechroot"} \subseteq ce.flag
          /\ ce.fakerootSaveFile # <<>> )
        => /\ ce'.Path = LookPath(Wrappers, "fakechroot").path
           /\ ce'.Args =
                << LookPath(Wrappers, "fakechroot").path,
                   <<"--environment">>, <<"debootstrap">>, <<"--">>,
                   LookPath(Wrappers, "fakeroot").path,
                   <<"-s">>, ce.fakerootSaveFile, <<"-i">>, ce.fakerootSaveFile,
                   <<"--">>,
                   LookPath(Wrappers, "chroot").path, ce.chrootDir,
                   ce.Path >>
                  \o (IF ce.Args = <<>> THEN <<>> ELSE Tail(ce.Args)) ]_vars

C10_Witness ==
    /\ pc = "Pipe"
    /\ mode = "shell"
    /\ Len(ce.Args) = 16
    /\ ce.Args[13] = <<"/", "bin", "/", "bash">>
    /\ ce.Args[14] = <<"--rcfile">>

\* The lines of a byte stream: the runs between newlines, and a last run
\* that no newline ends.
RECURSIVE LinesOf(_)
LinesOf(stream) ==
    IF stream = <<>> THEN <<>>
    ELSE LET i == IndexByte(stream, LF)
         IN  IF i = 0 THEN << stream >>
             ELSE << Take(stream, i - 1) >> \o LinesOf(Drop(stream, i))

\* The lines the logger got with a label, in the order it got them.
RECURSIVE LoggedWith(_, _)
LoggedWith(label, entries) ==
    IF entries = <<>> THEN <<>>
    ELSE (IF Head(entries)[1] = label THEN << Head(entries)[2] >> ELSE <<>>)
             \o LoggedWith(label, Tail(entries))

\* C11: in captured mode, when RunCmd returns after a started process, the
\* logger has got every line the child wrote to standard output and every
\* line it wrote to standard error, each stream in the order written.  The
\* code breaks this: on a line that reaches the Scanner's token limit readBuf
\* stops reading, and that line and the lines after it never reach the
\* logger.
C11_AllLinesForwarded ==
    (pc = "Returned" /\ ~Interactive /\ log[Len(log)].proc = "started") =>
        /\ LoggedWith("[stdout]", logged) = LinesOf(childOut)
        /\ LoggedWith("[stderr]", logged) = LinesOf(childErr)

\* The name and the value of an environment entry NAME=value.
EntryName(e) == Take(e, IndexByte(e, "=") - 1)

EntryValue(e) == Drop(e, IndexByte(e, "="))

\* What a process that resolves duplicate names by the last occurrence sees
\* for `name` in the environment env; <<"unset">> when no entry has the name.
EnvLookup(env, name) ==
    LET S == { i \in 1..Len(env) : EntryName(env[i]) = name }
    IN  IF S = {} THEN <<"unset">>
        ELSE EntryValue(env[CHOOSE i \in S : \A j \in S : j <= i])

\* C12: in chroot and non-chroot mode RIB_EXEC_ENV=1 is the last entry of
\* the environment SetEnv composes, so the child sees RIB_EXEC_ENV=1 under
\* last-occurrence-wins whatever the persistent store holds.
C12_SentinelLast ==
    pc = "MakeArgs" =>
        /\ ce.Env # <<>>
        /\ ce.Env[Len(ce.Env)] = <<"RIB_EXEC_ENV", "=", "1">>
        /\ EnvLookup(ce.Env, <<"RIB_EXEC_ENV">>) = <<"1">>

C12_Witness ==
    /\ pc = "MakeArgs"
    /\ "Echroot" \in ce.flag
    /\ <<"RIB_EXEC_ENV">> \in DOMAIN cmdPersistEnv
    /\ cmdPersistEnv[<<"RIB_EXEC_ENV">>] = <<"0">>
    /\ \E i \in 1..(Len(ce.Env) - 1) : ce.Env[i] = <<"RIB_EXEC_ENV", "=", "0">>

\* C13: in the environment SetEnv composes every entry of the persistent
\* store comes after every mode-specific default entry; a name in both is
\* there twice, default first, and under last-occurrence-wins the child sees
\* the store's value.
C13_PersistAfterDefaults ==
    pc = "MakeArgs" =>
        LET defaults == cmdVolatileEnv(ce)
            nd       == Cardinality(DOMAIN defaults)
            ns       == Cardinality(DOMAIN cmdPersistEnv)
        IN  /\ Len(ce.Env) = nd + ns + 1
            /\ { ce.Env[i] : i \in 1..nd } =
                   { EnvEntry(k, defaults[k]) : k \in DOMAIN defaults }
            /\ { ce.Env[i] : i \in (nd + 1)..(nd + ns) } =
                   { EnvEntry(k, cmdPersistEnv[k]) : k \in DOMAIN cmdPersistEnv }
            /\ \A k \in DOMAIN defaults \cap DOMAIN cmdPersistEnv :
                   /\ \E i \in 1..nd, j \in (nd + 1)..(nd + ns) :
                          /\ ce.Env[i] = EnvEntry(k, defaults[k])
                          /\ ce.Env[j] = EnvEntry(k, cmdPersistEnv[k])
                   /\ EnvLookup(ce.Env, k) = cmdPersistEnv[k]

C13_Witness ==
    /\ pc = "MakeArgs"
    /\ "Echroot" \notin ce.flag
    /\ DOMAIN cmdPersistEnv = { <<"PATH">>, <<"VTEMP">>, <<"A">> }
    /\ EnvLookup(ce.Env, <<"PATH">>) = <<"/opt">>
    /\ EnvLookup(ce.Env, <<"VTEMP">>) = <<"0">>

(***************************************************************************)
(* The order of events in RunCmd and between requests                      *)
(***************************************************************************)
\* C18: RunCmd is at ce.Wait(), or past it, only when it has received the
\* completion signal of every consumer it launched: of the side-channel
\* decoder, and in captured mode of the stdout and the stderr collector
\* (the interactive branch launches no collector).
C18_WaitAfterSignals ==
    (log # <<>> /\ (pc = "Wait" \/ log[Len(log)].exit # "none")) =>
        /\ dec = "done"
        /\ IF Interactive
           THEN outc = "none" /\ errc = "none"
           ELSE outc = "done" /\ errc = "done"

\* RunCmd of a captured request is at ce.Wait().
C18_Witness == pc = "Wait" /\ ~Interactive /\ log[Len(log)].proc = "started"

\* RunCmd of the shell is at ce.Wait().
C18_WitnessInteractive == pc = "Wait" /\ Interactive

\* A step that enters RunCmd of a further request.
NextRequest == Len(log') > Len(log) /\ Len(log) > 0

\* C19: the persistent store is written only by a running decoder, between
\* its launch and the receipt of its completion signal in the RunCmd that
\* launched it; SetEnv reads the store before the decoder of its own request
\* is launched, and a further request is entered only when the decoder of
\* the one before has been joined.
C19_StoreReadAfterJoin ==
    [][/\ (cmdPersistEnv' # cmdPersistEnv \/ applied' # applied) =>
              /\ dec = "running"
              /\ pc \in {"StdPipes", "Start", "CloseWrite", "RecvStdout",
                         "RecvStderr", "RecvPipe"}
       /\ pc = "SetEnv" => dec = "none"
       /\ Len(log') > Len(log) => dec \in {"none", "done"}
       /\ NextRequest => dec = "done"]_vars

\* The second request of a build reads, in SetEnv, a store that the decoder
\* of the first request has written.
C19_Witness ==
    /\ mode = "build"
    /\ Len(log) = 2
    /\ pc = "SetEnv"
    /\ applied # <<>>
    /\ DOMAIN cmdPersistEnv # {}

InRunCmd == log # <<>> /\ log[Len(log)].ret = "pending"

\* C21: once the child of a request has exited, which closes its standard
\* output, its standard error and its side-channel descriptor, RunCmd of
\* that request returns.  The code breaks this: a record that makes
\* readPipe panic ends the orchestrator with RunCmd still waiting.
C21_RunCmdReturns == (proc = "exited" /\ InRunCmd) ~> ~InRunCmd

\* What holds instead: RunCmd returns unless the orchestrator has died of a
\* panic in readPipe, so there is no deadlock in the rendezvous.
C21_ReturnsUnlessCrashed ==
    (proc = "exited" /\ InRunCmd) ~> (~InRunCmd \/ pc = "Crashed")

\* A collector has left its loop on a token that is too long while the
\* child has not written all of that stream.
OutCollectorGaveUp ==
    outc # "running" /\ Len(outPipe) >= MaxScanTokenSize /\ outPend # <<>>

ErrCollectorGaveUp ==
    errc # "running" /\ Len(errPipe) >= MaxScanTokenSize /\ errPend # <<>>

\* C22: when a collector has stopped on a read error while the child still
\* has output to write, RunCmd still returns.  The code breaks this: nobody
\* reads the stream any more, the child blocks in its write when the pipe is
\* full and never exits, and RunCmd waits for it for ever.
C22_ReturnsAfterScanError ==
    (InRunCmd /\ (OutCollectorGaveUp \/ ErrCollectorGaveUp)) ~> ~InRunCmd

\* C23: when RunCmd has returned, every consumer it launched has published
\* its completion event and RunCmd has received it: none is running or
\* blocked in its send.  The code breaks this on the returns between the
\* launch of readPipe and the receive from stopPipe.
C23_ConsumersJoinedAtReturn ==
    pc = "Returned" =>
        /\ dec \in {"none", "done"}
        /\ outc \in {"none", "done"}
        /\ errc \in {"none", "done"}

\* C24: a step that removes a volatile directory of a request is taken only
\* when the process of the request was never started, or failed to start,
\* or has been waited for.  The code breaks this: the interactive branch
\* returns on a failed Close of the pipe's write end with the process
\* running, and the deferred RemoveVolatileDirs runs.
C24_DirsOutliveProcess ==
    [][(\E d \in {ce.vTmpDir, ce.vExecDir} : d \in disk /\ d \notin disk') =>
           \/ log[Len(log)].proc \in {"none", "startfailed"}
           \/ log'[Len(log)].exit # "none"]_vars

\* The errors RunCmd returns from its setup: MakeVolatileDirs, CopyFile,
\* SetEnv, MakeArgs and os.Pipe.
SetupErrors == {"TempDir", "CopyFile", "SetEnv", "MakeArgs", "Pipe"}

\* C25: a request that has returned without a process having been started
\* has returned an error (of its setup, or of the making of the output
\* pipes), with or without Eignoreexit; a request whose setup
\* has failed has started no process and is the last one, and cmdBuild ends
\* with an error.
C25_SetupFailureHalts ==
    \A i \in 1..Len(log) :
        /\ (log[i].proc = "none" /\ log[i].ret # "pending") =>
               log[i].ret \in SetupErrors \cup {"StdPipe"}
        /\ log[i].ret \in SetupErrors =>
               /\ log[i].proc = "none"
               /\ i = Len(log)
               /\ proc = "none"
               /\ runErr = log[i].ret
               /\ pc \in {"Returned", "Done"}
               /\ (mode = "build" /\ pc = "Done") => result = "err"

\* A build has ended with an error on the failure of os.Pipe in a request
\* with Eignoreexit, a later request left unstarted.
C25_Witness ==
    /\ mode = "build"
    /\ pc = "Done"
    /\ result = "err"
    /\ log # <<>>
    /\ log[Len(log)].ret = "Pipe"
    /\ "Eignoreexit" \in log[Len(log)].flag
    /\ Len(celist) > Len(log)

(***************************************************************************)
(* MakeArgs for every set of wrapper flags                                 *)
(***************************************************************************)
WrapperPath(name) == LookPath(Wrappers, name).path

\* What each flagged wrapper puts before the arguments.
ChrootPrefix(c) ==
    IF "Echroot" \in c.flag THEN << WrapperPath("chroot"), c.chrootDir >>
    ELSE <<>>

FakerootPrefix(c) ==
    IF "Efakeroot" \notin c.flag THEN <<>>
    ELSE IF c.fakerootSaveFile # <<>>
    THEN << WrapperPath("fakeroot"), <<"-s">>, c.fakerootSaveFile,
            <<"-i">>, c.fakerootSaveFile, <<"--">> >>
    ELSE << WrapperPath("fakeroot"), <<"--">> >>

FakechrootPrefix(c) ==
    IF "Efakechroot" \in c.flag
    THEN << WrapperPath("fakechroot"), <<"--environment">>,
            <<"debootstrap">>, <<"--">> >>
    ELSE <<>>

\* The original argv: the arguments as they are, and under chroot the
\* original path followed by the original arguments.
OrigArgv(c) ==
    IF "Echroot" \in c.flag /\ c.Path # <<>>
    THEN << c.Path >> \o (IF c.Args = <<>> THEN <<>> ELSE Tail(c.Args))
    ELSE c.Args

\* The location of the outermost flagged wrapper.
Outermost(c) ==
    IF "Efakechroot" \in c.flag THEN WrapperPath("fakechroot")
    ELSE IF "Efakeroot" \in c.flag THEN WrapperPath("fakeroot")
    ELSE IF "Echroot" \in c.flag THEN WrapperPath("chroot")
    ELSE c.Path

\* C26: for every set of wrapper flags, when MakeArgs succeeds argv is the
\* prefix of fakechroot, of fakeroot and of chroot, each only when flagged,
\* followed by the original argv, and the path is the location of the
\* outermost flagged wrapper; with no wrapper flag MakeArgs succeeds and
\* changes nothing; with only chroot argv is chroot, root, original path,
\* original arguments; with chroot and no root directory it returns an
\* error.
C26_WrapOrder ==
    [][pc = "MakeArgs" =>
        /\ pc' \in {"Pipe", "Returned"}
        /\ pc' = "Pipe" =>
              /\ ce'.Args = FakechrootPrefix(ce) \o FakerootPrefix(ce)
                              \o ChrootPrefix(ce) \o OrigArgv(ce)
              /\ ce'.Path = Outermost(ce)
              /\ ce' = [ce EXCEPT !.Args = ce'.Args, !.Path = ce'.Path]
        /\ ce.flag \cap WrapperFlags = {} => pc' = "Pipe" /\ ce' = ce
        /\ (ce.flag \cap WrapperFlags = {"Echroot"} /\ pc' = "Pipe"
              /\ ce.Path # <<>> /\ ce.Args # <<>>) =>
              ce'.Args = << WrapperPath("chroot"), ce.chrootDir, ce.Path >>
                           \o Tail(ce.Args)
        /\ ("Echroot" \in ce.flag /\ ce.chrootDir = <<>>) =>
              pc' = "Returned" /\ runErr' = "MakeArgs" /\ ce' = ce]_vars

\* MakeArgs has wrapped a command of two arguments in fakeroot and chroot,
\* and not in fakechroot.
C26_Witness ==
    /\ pc = "Pipe"
    /\ ce.flag = {"Echroot", "Efakeroot"}
    /\ ce.Path = WrapperPath("fakeroot")
    /\ Len(ce.Args) = 10
    /\ ce.Args[7] = WrapperPath("chroot")
    /\ ce.Args[9] = <<"/", "p">>
    /\ ce.Args[10] = <<"x">>

(***************************************************************************)
(* The decoder on records of other categories and on the end of the stream *)
(***************************************************************************)
\* The fields of the record at the head of the pipe.
HeadRecord == SplitN(Take(pipeBuf, IndexByte(pipeBuf \o <<NUL>>, NUL) - 1), US, 3)

NulAt(st) == { i \in 1..Len(st) : st[i] = NUL }

\* The k-th run of a stream that a NUL ends.
Segment(st, k) ==
    LET e == CHOOSE i \in NulAt(st) :
                 Cardinality({ j \in NulAt(st) : j <= i }) = k
        b == IF k = 1 THEN 0
             ELSE CHOOSE i \in NulAt(st) :
                      Cardinality({ j \in NulAt(st) : j <= i }) = k - 1
    IN  SubSeq(st, b + 1, e - 1)

\* A stream with a NUL put after a last record that has none.
Terminated(st) ==
    IF st # <<>> /\ st[Len(st)] # NUL THEN st \o <<NUL>> ELSE st

\* C30: when the decoder has read a stream to its end, the records applied
\* are the runs that the NUL bytes end in the stream with a NUL put after a
\* last record that has none: a last record without NUL counts like one
\* with it, and no record follows a last NUL; the store is the fold of these
\* records.
C30_FinalRecord ==
    (dec = "send" /\ Len(log) > 0) =>
        LET st == Terminated(log[Len(log)].stream)
        IN  /\ applied = [k \in 1..Cardinality(NulAt(st)) |->
                              SplitN(Segment(st, k), US, 3)]
            /\ persistMade => cmdPersistEnv = RefStore(applied)

\* The decoder has read to its end a stream whose last record, a setenv, no
\* NUL ends, and has applied that record.
C30_Witness ==
    /\ dec = "send"
    /\ Len(log) > 0
    /\ LET st == log[Len(log)].stream
       IN  /\ st # <<>>
           /\ st[Len(st)] # NUL
           /\ Cardinality(NulAt(st)) = 1
    /\ Len(applied) = 2
    /\ applied[2] = << <<"setenv">>, <<"A">>, <<"2">> >>
    /\ cmdPersistEnv = (<<"A">> :> <<"2">>)

(***************************************************************************)
(* The side channel of every RunCmd invocation.                            *)
(***************************************************************************)
\* C29: whenever the decoder of the side channel runs, a record handler is
\* set in the command's environment and the store is made; and the decoder
\* ends the orchestrator only on a record of fewer than three fields, never
\* on a well-formed one.
C29_HandlerInPlace ==
    /\ dec = "running" => (ce.childDataHandler /\ persistMade)
    /\ (dec = "panicked" /\ log # <<>>) => HasMalformed(log[Len(log)].stream)

(***************************************************************************)
(* unsetenv of a built-in default variable.                                *)
(***************************************************************************)
\* The last record of recs that sets or unsets key k is an unsetenv.
LastIsUnset(recs, k) ==
    \E i \in 1..Len(recs) :
        /\ recs[i][1] = <<"unsetenv">>
        /\ recs[i][2] = k
        /\ \A j \in (i + 1)..Len(recs) :
               ~(recs[j][1] = <<"setenv">> /\ recs[j][2] = k)

\* C31: the environment SetEnv composes for a request holds every built-in
\* default variable of the request's mode (PATH, VTEMP, and without chroot
\* the RIB_DIR_ variables) with its default value; when the last record
\* about such a variable was an unsetenv, the store has no entry of that
\* name and the request sees the variable with its default value.
C31_UnsetKeepsDefault ==
    pc = "MakeArgs" =>
        LET defaults == cmdVolatileEnv(ce)
        IN  \A k \in DOMAIN defaults :
                /\ \E i \in 1..Len(ce.Env) : ce.Env[i] = EnvEntry(k, defaults[k])
                /\ LastIsUnset(applied, k) =>
                       /\ k \notin DOMAIN cmdPersistEnv
                       /\ EnvLookup(ce.Env, k) = defaults[k]

\* The second request of a build after the first one set PATH and unset it
\* again: the store is empty and PATH is the default.
C31_Witness ==
    /\ pc = "MakeArgs"
    /\ mode = "build"
    /\ idx = 2
    /\ applied = << << <<"setenv">>, <<"PATH">>, <<"/opt">> >>,
                    << <<"unsetenv">>, <<"PATH">>, <<>> >> >>
    /\ cmdPersistEnv = EmptyMap
    /\ EnvLookup(ce.Env, <<"PATH">>) = cmdVolatileEnv(ce)[<<"PATH">>]

(***************************************************************************)
(* The file helpers.  B is the file system before the call, p its path.    *)
(***************************************************************************)
\* Every directory above p exists and may be searched.
Accessible(f, p) ==
    \A i \in 1..(Len(p) - 1) :
        /\ Take(p, i) \in DOMAIN f
        /\ f[Take(p, i)].kind = "dir"
        /\ f[Take(p, i)].r

\* p exists and may be opened for reading.
CanOpen(f, p) == p \in DOMAIN f /\ Accessible(f, p) /\ f[p].r

\* p is absent and its parent directory exists and accepts a new entry.
CanCreate(f, p) ==
    /\ p \notin DOMAIN f
    /\ Accessible(f, p)
    /\ NodeAt(f, Parent(p)).w

\* The prefixes of p that exist.
Existing(f, p) == { i \in 0..Len(p) : i = 0 \/ Take(p, i) \in DOMAIN f }

\* p is absent, what exists above it are directories that may be searched,
\* and the lowest of them accepts a new entry.
CanCreateAll(f, p) ==
    /\ p \notin DOMAIN f
    /\ \A i \in Existing(f, p) \ {0} :
           f[Take(p, i)].kind = "dir" /\ f[Take(p, i)].r
    /\ \E k \in Existing(f, p) :
           /\ \A i \in Existing(f, p) : i <= k
           /\ NodeAt(f, Take(p, k)).w

\* f with p and the missing directories above it.
WithDirs(f, p) ==
    [q \in DOMAIN f \cup { Take(p, i) : i \in 1..Len(p) } |->
        IF q \in DOMAIN f THEN f[q] ELSE Dir(TRUE, TRUE)]

\* C15 as stated: EnsureFile(p) creates an absent p whose parent directory
\* exists as an empty regular file and returns nil; returns nil and leaves p
\* unchanged when p is an existing regular file; returns an error and
\* changes nothing when p is a directory or cannot be created; after every
\* nil return p is a regular file.
C15_Original ==
    call.op = "EnsureFile" =>
        LET B == call.before
            p == call.path
        IN  /\ CanCreate(B, p) =>
                call.err = "nil" /\ fs = B @@ (p :> File(0, TRUE))
            /\ (p \in DOMAIN B /\ B[p].kind = "file") =>
                call.err = "nil" /\ fs = B
            /\ (\/ p \in DOMAIN B /\ B[p].kind = "dir"
                \/ p \notin DOMAIN B /\ ~CanCreate(B, p)) =>
                call.err # "nil" /\ fs = B
            /\ call.err = "nil" => p \in DOMAIN fs /\ fs[p].kind = "file"

\* C15: EnsureFile(p) creates an absent p whose parent directory exists and
\* accepts it as an empty regular file and returns nil; returns nil and
\* changes nothing when p exists, is no directory and can be opened for
\* reading; returns an error and changes nothing when p is a directory,
\* cannot be opened or cannot be created; after every nil return p exists
\* and is not a directory, and a second call returns nil and changes nothing.
C15_EnsureFile ==
    call.op = "EnsureFile" =>
        LET B == call.before
            p == call.path
        IN  /\ CanCreate(B, p) =>
                call.err = "nil" /\ fs = B @@ (p :> File(0, TRUE))
            /\ (CanOpen(B, p) /\ B[p].kind # "dir") =>
                call.err = "nil" /\ fs = B
            /\ (\/ p \in DOMAIN B /\ (B[p].kind = "dir" \/ ~CanOpen(B, p))
                \/ p \notin DOMAIN B /\ ~CanCreate(B, p)) =>
                call.err # "nil" /\ fs = B
            /\ call.err = "nil" =>
                /\ p \in DOMAIN fs
                /\ fs[p].kind # "dir"
                /\ EnsureFile(fs, p) = [err |-> "nil", fs |-> fs]

\* EnsureFile has created a file in a subdirectory.
C15_Witness ==
    /\ call.op = "EnsureFile"
    /\ call.err = "nil"
    /\ Len(call.path) = 2
    /\ call.path \notin DOMAIN call.before
    /\ fs[call.path] = File(0, TRUE)

EmptyFileOrDir(f, p) ==
    /\ p \in DOMAIN f
    /\ \/ f[p].kind = "file" /\ f[p].size = 0
       \/ f[p].kind = "dir" /\ Children(f, p) = {}

\* C17 as stated: IsEmpty(p) returns (true, nil) exactly when p is a regular
\* file of size zero or a directory with no entries, (false, nil) when p is
\* a file of size greater than zero or a directory with an entry, and an
\* error when p does not exist.
C17_Original ==
    call.op = "IsEmpty" =>
        LET B == call.before
            p == call.path
        IN  /\ (call.empty /\ call.err = "nil") <=> EmptyFileOrDir(B, p)
            /\ (/\ p \in DOMAIN B
                /\ \/ B[p].kind = "file" /\ B[p].size > 0
                   \/ B[p].kind = "dir" /\ Children(B, p) # {}) =>
                (~call.empty /\ call.err = "nil")
            /\ p \notin DOMAIN B => call.err # "nil"

\* C17: when p can be opened for reading, IsEmpty(p) returns no error, and
\* returns true exactly when p is a directory with no entries or is no
\* directory and has size zero; when p does not exist or cannot be opened
\* it returns false and an error; it changes nothing.
C17_IsEmpty ==
    call.op = "IsEmpty" =>
        LET B == call.before
            p == call.path
        IN  /\ CanOpen(B, p) =>
                /\ call.err = "nil"
                /\ call.empty <=>
                       \/ B[p].kind = "dir" /\ Children(B, p) = {}
                       \/ B[p].kind # "dir" /\ B[p].size = 0
            /\ ~CanOpen(B, p) => call.err # "nil" /\ ~call.empty
            /\ fs = B

\* IsEmpty has told a directory with an entry from an empty one below it.
C17_Witness ==
    /\ call.op = "IsEmpty"
    /\ call.err = "nil"
    /\ ~call.empty
    /\ call.path = <<"a">>
    /\ DOMAIN call.before = { <<"a">>, <<"a", "b">> }
    /\ IsEmpty(fs, <<"a", "b">>) = [empty |-> TRUE, err |-> "nil"]

(***************************************************************************)
(* rib clean                                                               *)
(***************************************************************************)
\* d is a directory with no entries.
IsEmptyDir(f, d) ==
    d \in DOMAIN f /\ f[d].kind = "dir" /\ Children(f, d) = {}

\* What lies at and below d is in g what it is in f.
SameBelow(f, g, d) ==
    /\ { q \in DOMAIN f : Below(d, q) } = { q \in DOMAIN g : Below(d, q) }
    /\ \A q \in DOMAIN f : Below(d, q) => g[q] = f[q]

Initialized(f, w) ==
    w \o PATHNAME_RIB \in DOMAIN f /\ f[w \o PATHNAME_RIB].kind # "dir"

\* w is a directory that holds something.
NotEmpty(f, w) ==
    w \in DOMAIN f /\ f[w].kind = "dir" /\ Children(f, w) # {}

\* w is absent or a directory that holds nothing.
EmptyOrAbsent(f, w) == w \notin DOMAIN f \/ IsEmptyDir(f, w)

\* Every entry of the skeleton is in directory w, as a file or a directory
\* as the skeleton has it.
HasSkeleton(f, w) ==
    \A i \in 1..Len(dirSkeleton) :
        /\ w \o dirSkeleton[i].pathname \in DOMAIN f
        /\ f[w \o dirSkeleton[i].pathname].kind =
               (IF dirSkeleton[i].filetype = "FILE" THEN "file" ELSE "dir")

\* C28 as stated: cmdInit on a directory that is already initialized or not
\* empty returns an error and changes nothing; on an empty or absent
\* directory it creates the full skeleton, and isRibDir holds afterwards.
C28_Original ==
    call.op = "cmdInit" =>
        LET B == call.before
            w == call.path
        IN  /\ (Initialized(B, w) \/ NotEmpty(B, w)) =>
                call.err # "nil" /\ fs = B
            /\ EmptyOrAbsent(B, w) =>
                call.err = "nil" /\ HasSkeleton(fs, w) /\ isRibDir(fs, w)

\* C28: cmdInit on a directory that is already initialized or not empty
\* returns an error; on an empty directory that can be read and written,
\* and on an absent one that can be created, it creates the full skeleton,
\* changes nothing else, and isRibDir holds afterwards; on an empty
\* directory that cannot be read or written, and on an absent one that
\* cannot be created, it returns an error; whenever it returns an error it
\* has changed nothing.
C28_InitEmptyOrAbsent ==
    call.op = "cmdInit" =>
        LET B == call.before
            w == call.path
            able == IF w \in DOMAIN B THEN CanOpen(B, w) /\ B[w].w
                    ELSE CanCreateAll(B, w)
        IN  /\ (Initialized(B, w) \/ NotEmpty(B, w)) => call.err # "nil"
            /\ call.err # "nil" => fs = B
            /\ (EmptyOrAbsent(B, w) /\ able) => call.err = "nil"
            /\ (EmptyOrAbsent(B, w) /\ ~able) => call.err # "nil"
            /\ call.err = "nil" =>
                /\ EmptyOrAbsent(B, w)
                /\ HasSkeleton(fs, w)
                /\ isRibDir(fs, w)
                /\ fs = WithDirs(B, w) @@ Skeleton(w)

\* cmdInit has made the skeleton in a directory that was absent, like the
\* directory above it.
C28_Witness ==
    /\ call.op = "cmdInit"
    /\ call.err = "nil"
    /\ call.path = <<"n", "w">>
    /\ <<"n">> \notin DOMAIN call.before
    /\ HasSkeleton(fs, <<"n", "w">>)
    /\ fs[<<"n", "w">> \o PATHNAME_RIB] = File(0, TRUE)

(***************************************************************************)
(* rib init, rib clean and rib build on one work directory                 *)
(***************************************************************************)
\* The entries of the skeleton that rib clean does not delete.
KeptByClean == { PATHNAME_RIB, PATHNAME_BUILDD, PATHNAME_FILES, PATHNAME_BIN }

\* What C32 says of every command but the skeleton after a clean: once
\* cmdInit has succeeded isRibDir holds; clean leaves the marker, build.d,
\* files and bin as they are; cmdBuild and cmdClean without the marker
\* return an error and change nothing, so that no script is run.
LifeCommon ==
    /\ result = "nil" => isRibDir(fs, LifeDir)
    /\ (call.op = "cmdInit" /\ call.err = "nil") => isRibDir(fs, LifeDir)
    /\ call.op \in {"cmdClean", "cmdBuild"} =>
           /\ isRibDir(call.before, LifeDir) => isRibDir(fs, LifeDir)
           /\ ~isRibDir(call.before, LifeDir) =>
                  call.err # "nil" /\ fs = call.before
    /\ call.op = "cmdClean" =>
           \A k \in KeptByClean :
               SameBelow(call.before, fs, LifeDir \o k)

\* C32 as stated: besides the above, every clean of an initialized
\* directory ends with the complete skeleton present.
C32_Original ==
    /\ LifeCommon
    /\ (call.op = "cmdClean" /\ isRibDir(call.before, LifeDir)) =>
           HasSkeleton(fs, LifeDir)

\* C32: once cmdInit has succeeded on a directory, isRibDir holds for it
\* after any sequence of cmdClean operations, with or without --all, and
\* cmdBuild skeleton set-ups; clean never removes the marker file, build.d,
\* files and bin; every clean that returns nil ends with the complete
\* skeleton present, while a clean that fails to delete a target returns
\* the error at once and may leave the targets deleted before it missing;
\* cmdBuild and cmdClean on a directory without the marker return an error
\* before modifying anything or running any script.
C32_MarkerSurvives ==
    /\ LifeCommon
    /\ (call.op = "cmdClean" /\ call.err = "nil") => HasSkeleton(fs, LifeDir)
    /\ (call.op = "cmdClean" /\ isRibDir(call.before, LifeDir)
            /\ ~HasSkeleton(fs, LifeDir)) =>
           \E i \in 1..Len(cleanTargets(call.all)) :
               /\ LifeDir \o cleanTargets(call.all)[i] \in DOMAIN fs
               /\ ~CanRemove(call.before, LifeDir \o cleanTargets(call.all)[i] \o <<"x">>)

\* rib clean --all has succeeded on an initialized directory whose rootfs
\* and dist held a file: the skeleton is complete, the two are empty.
C32_Witness ==
    /\ call.op = "cmdClean"
    /\ call.all
    /\ call.err = "nil"
    /\ result = "nil"
    /\ Children(call.before, LifeDir \o PATHNAME_ROOTFS) # {}
    /\ Children(call.before, LifeDir \o PATHNAME_DIST) # {}
    /\ HasSkeleton(fs, LifeDir)
    /\ isRibDir(fs, LifeDir)
    /\ IsEmptyDir(fs, LifeDir \o PATHNAME_ROOTFS)
    /\ IsEmptyDir(fs, LifeDir \o PATHNAME_DIST)

=============================================================================
